---- MODULE Spec2Model ----
(***************************************************************************)
(* pr-manager: the review / merge / full workflows of the Go rewrite.      *)
(*                                                                         *)
(* One run of the process is modelled: the cobra RunE closure of the       *)
(* chosen subcommand, the Execute method of the command it builds, every   *)
(* GHClient method that method calls (each one subprocess through          *)
(* OSExecutor.Execute), every Printer.Confirm prompt, and main's exit.     *)
(* Each action is one step of that straight-line code, from one external   *)
(* interaction (subprocess or prompt) to the next.  The outcome of every   *)
(* subprocess, the payload it prints and the line typed at a prompt are    *)
(* chosen by the environment.                                              *)
(***************************************************************************)
EXTENDS Integers, Sequences, FiniteSets, TLC

VARIABLES
    cmd,        \* the subcommand cobra dispatched to: "review", "merge", "full"
    opts,       \* config.Options: [Auto, MergeMethod]
    prNumber,   \* the PR number parsePR returned (0 before it has run)
    pc,         \* position of the run in the code
    pr,         \* *gh.PRInfo returned by GetPR (NoPR before the fetch)
    approved,   \* the local `approved` of ReviewCommand.Execute / doReview
    err,        \* the error value travelling to main (Nil when none)
    exitCode,   \* process exit status (Running until the process has exited)
    trace,      \* history: every subprocess run and every prompt shown, in order
    warnings,   \* Printer.Warning messages printed so far, in order
    args,       \* the positional arguments cobra hands to the subcommand
    child,      \* output and exit code of the subprocess whose failure became err
    cause,      \* text of the error that err wraps with %w (empty when none)
    github,     \* the PR on GitHub: approving reviews this tool submitted, and whether it is merged
    run,        \* which invocation of the tool this is, counting from 1
    stdin,      \* every read of standard input so far: what each returned
    result      \* what OSExecutor.Execute returned when called on its own: [out, err]

vars == <<cmd, opts, prNumber, pc, pr, approved, err, exitCode, trace, warnings, args, child, cause, github, run, stdin, result>>

(***************************************************************************)
(* Bounds                                                                  *)
(***************************************************************************)
MaxPR == 2

\* PR numbers the user may type: 1..MaxPR and one two-digit number
PRNumbers == (1..MaxPR) \cup {42}

(***************************************************************************)
(* Text.  Strings that the code converts are sequences of characters.      *)
(***************************************************************************)
LowerLetters == <<"a","b","c","d","e","f","g","h","i","j","k","l","m",
                  "n","o","p","q","r","s","t","u","v","w","x","y","z">>
UpperLetters == <<"A","B","C","D","E","F","G","H","I","J","K","L","M",
                  "N","O","P","Q","R","S","T","U","V","W","X","Y","Z">>

IndexIn(c, letters) == CHOOSE i \in 1..Len(letters) : letters[i] = c

UpperChar(c) ==
    IF \E i \in 1..Len(LowerLetters) : LowerLetters[i] = c
    THEN UpperLetters[IndexIn(c, LowerLetters)] ELSE c

LowerChar(c) ==
    IF \E i \in 1..Len(UpperLetters) : UpperLetters[i] = c
    THEN LowerLetters[IndexIn(c, UpperLetters)] ELSE c

\* strings.ToUpper / strings.ToLower
ToUpper(s) == [i \in 1..Len(s) |-> UpperChar(s[i])]
ToLower(s) == [i \in 1..Len(s) |-> LowerChar(s[i])]

\* unicode.IsSpace on the characters that occur
IsSpace(c) == c \in {" ", "\t", "\r", "\n"}

RECURSIVE TrimLeft(_)
TrimLeft(s) == IF s # <<>> /\ IsSpace(Head(s)) THEN TrimLeft(Tail(s)) ELSE s

RECURSIVE TrimRight(_)
TrimRight(s) ==
    IF s # <<>> /\ IsSpace(s[Len(s)]) THEN TrimRight(SubSeq(s, 1, Len(s) - 1)) ELSE s

\* strings.TrimSpace
TrimSpace(s) == TrimRight(TrimLeft(s))

\* strings.Contains
Contains(s, sub) ==
    \E i \in 0..(Len(s) - Len(sub)) : SubSeq(s, i + 1, i + Len(sub)) = sub

DecimalDigits == <<"0","1","2","3","4","5","6","7","8","9">>

\* strconv.Itoa on a non-negative int
RECURSIVE Itoa(_)
Itoa(n) ==
    IF n < 10 THEN DecimalDigits[n + 1]
    ELSE Itoa(n \div 10) \o DecimalDigits[(n % 10) + 1]

\* the decimal text of a non-negative int, as a sequence of characters
RECURSIVE Chars(_)
Chars(n) ==
    IF n < 10 THEN <<DecimalDigits[n + 1]>>
    ELSE Append(Chars(n \div 10), DecimalDigits[(n % 10) + 1])

IsDigit(c) == \E i \in 1..Len(DecimalDigits) : DecimalDigits[i] = c
DigitValue(c) == IndexIn(c, DecimalDigits) - 1

\* strconv.Atoi: an optional sign, then one or more decimal digits, the
\* value within the range of a 64-bit int
HasSign(s) == s # <<>> /\ s[1] \in {"+", "-"}
Unsigned(s) == IF HasSign(s) THEN Tail(s) ELSE s

RECURSIVE Significant(_)
Significant(d) == IF Len(d) > 1 /\ d[1] = "0" THEN Significant(Tail(d)) ELSE d

MaxInt64    == <<"9","2","2","3","3","7","2","0","3","6","8","5","4","7","7","5","8","0","7">>
MinInt64Abs == <<"9","2","2","3","3","7","2","0","3","6","8","5","4","7","7","5","8","0","8">>

\* a <= b for two digit strings of the same length
RECURSIVE DigitsLE(_, _)
DigitsLE(a, b) ==
    \/ a = <<>>
    \/ DigitValue(a[1]) < DigitValue(b[1])
    \/ a[1] = b[1] /\ DigitsLE(Tail(a), Tail(b))

InRange(s) ==
    LET d     == Significant(Unsigned(s))
        limit == IF s[1] = "-" THEN MinInt64Abs ELSE MaxInt64
    IN  Len(d) < Len(limit) \/ (Len(d) = Len(limit) /\ DigitsLE(d, limit))

AtoiErr(s) ==
    \/ Unsigned(s) = <<>>
    \/ \E i \in 1..Len(Unsigned(s)) : ~IsDigit(Unsigned(s)[i])
    \/ ~InRange(s)

RECURSIVE Magnitude(_)
Magnitude(d) ==
    IF d = <<>> THEN 0
    ELSE 10 * Magnitude(SubSeq(d, 1, Len(d) - 1)) + DigitValue(d[Len(d)])

Atoi(s) == IF s[1] = "-" THEN 0 - Magnitude(Unsigned(s)) ELSE Magnitude(Unsigned(s))

(***************************************************************************)
(* internal/gh/models.go                                                   *)
(***************************************************************************)
PRStateOpen   == <<"O","P","E","N">>
PRStateClosed == <<"C","L","O","S","E","D">>
PRStateMerged == <<"M","E","R","G","E","D">>

MergeableYes      == "MERGEABLE"
MergeableConflict == "CONFLICTING"
MergeableUnknown  == "UNKNOWN"

\* the nil *PRInfo
NoPR == [Number |-> 0, State |-> <<>>, Mergeable |-> ""]

(***************************************************************************)
(* internal/config                                                         *)
(***************************************************************************)
MergeMethodMerge  == "merge"
MergeMethodSquash == "squash"
MergeMethodRebase == "rebase"
MergeMethodAuto   == "auto"
DefaultMergeMethod == MergeMethodMerge

ValidMergeMethods ==
    {MergeMethodMerge, MergeMethodSquash, MergeMethodRebase, MergeMethodAuto}

(***************************************************************************)
(* Values of the run                                                       *)
(***************************************************************************)
Nil     == "nil"
Running == -1

ErrArgCount           == "accepts 1 arg(s), received a different number"
ErrPRRequired         == "PR number is required"
ErrInvalidPR          == "invalid PR number - must be a positive integer"
ErrUnknownMergeMethod == "unknown merge method"
ErrGHNotInstalled     == "GitHub CLI (gh) is not installed or not in PATH"
ErrNotGitRepo         == "not inside a git repository"
ErrNotAuthenticated   == "not authenticated with GitHub CLI"
ErrPRNotFound         == "PR not found or inaccessible"
ErrParsePR            == "failed to parse PR response"
JSONSyntaxError       == <<"unexpected end of JSON input">>
ErrNotOpen            == "PR is not open"
ErrConflict           == "PR has merge conflicts"
ErrFetchReviews       == "failed to fetch reviews for PR"
ErrApprove            == "failed to approve PR"
ErrMerge              == "failed to merge PR"

(***************************************************************************)
(* What the environment can hand to the run                                *)
(***************************************************************************)
\* "state" values a metadata payload may carry
RawStates ==
    { PRStateOpen, <<"o","p","e","n">>, PRStateClosed, <<"c","l","o","s","e","d">>,
      PRStateMerged, <<"M","e","r","g","e","d">>, <<"D","R","A","F","T">>, <<>> }

\* "mergeable" values a metadata payload may carry
RawMergeables ==
    { MergeableYes, MergeableConflict, MergeableUnknown, "conflicting", "" }

\* "number" values a metadata payload may carry (0: the field is missing)
PayloadNumbers == {0} \cup PRNumbers

\* the decoded fields of a well-formed metadata payload
Payloads == [number : PayloadNumbers, state : RawStates, mergeable : RawMergeables]

\* standard output of `gh pr view N --json reviews`, as JSON tokens
ReviewsNone      == <<"{", "\"reviews\"", ":", "[", "]", "}">>
ReviewsApproved  == <<"{", "\"reviews\"", ":", "[", "{", "\"state\"", ":", "\"APPROVED\"", "}", "]", "}">>
ReviewsApprovedSpaced ==
    <<"{", "\"reviews\"", ":", " ", "[", "{", "\"state\"", ":", " ", "\"APPROVED\"", "}", "]", "}">>
ReviewsCommented == <<"{", "\"reviews\"", ":", "[", "{", "\"state\"", ":", "\"COMMENTED\"", "}", "]", "}">>
ReviewsMixed ==
    <<"{", "\"reviews\"", ":", "[", "{", "\"state\"", ":", "\"CHANGES_REQUESTED\"", "}", ",",
      "{", "\"state\"", ":", "\"APPROVED\"", "}", "]", "}">>

ReviewOutputs ==
    { ReviewsNone, ReviewsApproved, ReviewsApprovedSpaced, ReviewsCommented, ReviewsMixed }

\* what a read of standard input yields: end of stream, or one line of text
StdinReads ==
    { [eof |-> TRUE,  text |-> <<>>],
      [eof |-> FALSE, text |-> <<>>],
      [eof |-> FALSE, text |-> <<"y">>],
      [eof |-> FALSE, text |-> <<"Y">>],
      [eof |-> FALSE, text |-> <<" ", "Y", "e", "s", "\t">>],
      [eof |-> FALSE, text |-> <<"y", "e", "s">>],
      [eof |-> FALSE, text |-> <<"n">>],
      [eof |-> FALSE, text |-> <<"y", "e", "p">>],
      [eof |-> FALSE, text |-> <<"n", "o">>] }

(***************************************************************************)
(* History events                                                          *)
(***************************************************************************)
\* one OSExecutor.Execute(name, args...) and whether the subprocess exited zero
Exec(name, argv, ok) == [kind |-> "exec", name |-> name, args |-> argv, ok |-> ok]

\* one Printer.Confirm(format, ...) and what it returned
Prompt(format, accepted) ==
    [kind |-> "confirm", name |-> "Confirm", args |-> <<format>>, ok |-> accepted]

FmtApprove == "Approve PR #%d (%q)?"
FmtMerge   == "Merge PR #%d (%q) using %q method?"
FmtProceed == "Proceed with merge for PR #%d?"

(***************************************************************************)
(* internal/executor: OSExecutor.Execute                                   *)
(***************************************************************************)
\* what a finished subprocess leaves behind: its two output streams (as
\* sequences of words and white space) and its exit code
\* a PR this tool has not touched yet
NoActivity == [approvals |-> 0, merged |-> FALSE]

NoChild == [stdout |-> <<>>, stderr |-> <<>>, code |-> 0]

\* the (string, error) pair of an Execute that has not run
NoResult == [out |-> <<>>, err |-> <<>>]

Succeeded == { [stdout |-> <<"done", "\n">>, stderr |-> <<>>, code |-> 0] }

Failed ==
    { [stdout |-> <<>>, stderr |-> <<"GraphQL:", " ", "denied", "\n">>, code |-> 1],
      [stdout |-> <<"already", " ", "merged", "\n">>, stderr |-> <<>>, code |-> 1],
      [stdout |-> <<"partial", "\n">>, stderr |-> <<" ", "HTTP", " ", "401", "\n">>, code |-> 4],
      [stdout |-> <<"no", " ", "checks", "\n">>, stderr |-> <<" ", "\n">>, code |-> 1],
      [stdout |-> <<>>, stderr |-> <<>>, code |-> 1] }

Processes == Succeeded \cup Failed

\* the text of the *exec.ExitError that cmd.Run returns for a non-zero exit
ExitError(code) == <<"exit status ", Itoa(code)>>

\* Execute: the message and the error it returns for a finished subprocess
\* Execute without the fall-back to standard output
Execute_NoFallback(p) ==
    IF p.code # 0
    THEN [out |-> TrimSpace(p.stderr), err |-> ExitError(p.code)]
    ELSE [out |-> TrimSpace(p.stdout), err |-> <<>>]

Execute(p) ==
    IF p.code # 0
    THEN LET msg == TrimSpace(p.stderr)
         IN  [out |-> IF msg = <<>> THEN TrimSpace(p.stdout) ELSE msg,
              err |-> ExitError(p.code)]
    ELSE [out |-> TrimSpace(p.stdout), err |-> <<>>]

(***************************************************************************)
(* internal/output: ConsolePrinter.Confirm                                 *)
(***************************************************************************)
\* Confirm comparing the line as read, without strings.TrimSpace
Confirm_NoTrim(in) ==
    IF in.eof THEN FALSE
    ELSE LET resp == ToLower(in.text)
         IN  resp = <<"y">> \/ resp = <<"y", "e", "s">>

Confirm(in) ==
    IF in.eof THEN FALSE
    ELSE LET resp == ToLower(TrimSpace(in.text))
         IN  resp = <<"y">> \/ resp = <<"y", "e", "s">>

(***************************************************************************)
(* internal/gh: the argument lists GHClient hands to the executor          *)
(***************************************************************************)
GetPRArgs(n) ==
    <<"pr", "view", Itoa(n), "--json", "number,title,state,url,mergeable,author">>

IsAlreadyApprovedArgs(n) == <<"pr", "view", Itoa(n), "--json", "reviews">>

ApprovePRArgs(n) == <<"pr", "review", Itoa(n), "--approve">>

\* MergePR with the auto case missing from the switch
MergeFlag_NoAutoCase(method) ==
    CASE method = "squash" -> "--squash"
      [] method = "rebase" -> "--rebase"
      [] OTHER             -> "--merge"

\* MergePR with the squash case missing from the switch
MergeFlag_NoSquashCase(method) ==
    CASE method = "rebase" -> "--rebase"
      [] method = "auto"   -> "--auto"
      [] OTHER             -> "--merge"

\* the switch of MergePR
MergeFlag(method) ==
    CASE method = "squash" -> "--squash"
      [] method = "rebase" -> "--rebase"
      [] method = "auto"   -> "--auto"
      [] OTHER             -> "--merge"

\* MergePR asking the tool to delete the source branch
MergePRArgs_DeleteBranch(n, method) ==
    Append(<<"pr", "merge", Itoa(n), "--delete-branch">>, MergeFlag(method))

MergePRArgs(n, method) ==
    Append(<<"pr", "merge", Itoa(n), "--delete-branch=false">>, MergeFlag(method))

\* the string check of IsAlreadyApproved on the query's output
HasApprovedReview(out) ==
    \/ Contains(out, <<"\"state\"", ":", "\"APPROVED\"">>)
    \/ Contains(out, <<"\"state\"", ":", " ", "\"APPROVED\"">>)

\* the mapping of GetPR from the decoded payload to PRInfo
ToPRInfo(data) ==
    [Number |-> data.number, State |-> ToUpper(data.state), Mergeable |-> data.mergeable]

\* parsePR with `n <= 0` written as `n < 0`
parsePR_ZeroAccepted(a) ==
    IF Len(a) = 0 THEN [n |-> 0, err |-> ErrPRRequired]
    ELSE IF AtoiErr(a[1]) THEN [n |-> 0, err |-> ErrInvalidPR]
    ELSE IF Atoi(a[1]) < 0 THEN [n |-> 0, err |-> ErrInvalidPR]
    ELSE [n |-> Atoi(a[1]), err |-> Nil]

\* parsePR: the PR number out of cobra's positional arguments
parsePR(a) ==
    IF Len(a) = 0 THEN [n |-> 0, err |-> ErrPRRequired]
    ELSE IF AtoiErr(a[1]) THEN [n |-> 0, err |-> ErrInvalidPR]
    ELSE IF Atoi(a[1]) <= 0 THEN [n |-> 0, err |-> ErrInvalidPR]
    ELSE [n |-> Atoi(a[1]), err |-> Nil]

\* what the user may type after the subcommand: each PR number as plain
\* decimal text, with a leading zero and with a plus sign; and texts that
\* are not a positive integer, no argument at all, and one argument too many
NumberArgs ==
    { <<Chars(n)>> : n \in PRNumbers }
        \cup { << <<"0">> \o Chars(1) >>, << <<"+">> \o Chars(MaxPR) >> }

OtherArgs ==
    { <<>>,
      << <<"1">>, <<"2">> >>,
      << <<>> >>,
      << <<"0">> >>,
      << <<"0", "0">> >>,
      << <<"-", "0">> >>,
      << <<"-", "1">> >>,
      << <<"+">> >>,
      << <<"a", "b", "c">> >>,
      << <<"1", "a">> >>,
      << <<" ", "1">> >>,
      << <<"4", ".", "2">> >>,
      << <<"#", "7">> >>,
      << MinInt64Abs >>,
      << MinInt64Abs \o <<"0">> >>,
      << <<"-">> \o MinInt64Abs \o <<"0">> >> }

ArgInputs == NumberArgs \cup OtherArgs

(***************************************************************************)
(* Initial state: the flags and the argument cobra has parsed              *)
(***************************************************************************)
MethodInputs == ValidMergeMethods \cup {"fast-forward"}

Init ==
    /\ cmd \in {"review", "merge", "full"}
    /\ opts \in [Auto : BOOLEAN, MergeMethod : MethodInputs]
    /\ prNumber = 0
    /\ pc = "Args"
    /\ pr = NoPR
    /\ approved = FALSE
    /\ err = Nil
    /\ exitCode = Running
    /\ trace = <<>>
    /\ stdin = <<>>
    /\ result = NoResult
    /\ run = 1
    /\ github = NoActivity
    /\ cause = <<>>
    /\ child = NoChild
    /\ args \in ArgInputs
    /\ warnings = <<>>

WarnCouldNotCheck   == "Could not check existing reviews: %v"
WarnAlreadyApproved == "PR #%d is already approved - skipping approval"

\* the two `printer.Warning` calls that follow IsAlreadyApproved: one when the
\* query returned an error, one when it reported an approving review
Warning(queryOk, isApproved) ==
    warnings' = warnings \o (IF queryOk THEN <<>> ELSE <<WarnCouldNotCheck>>)
                         \o (IF isApproved THEN <<WarnAlreadyApproved>> ELSE <<>>)

\* `return e` out of RunE / Execute: the error reaches main
Return(e) == /\ err' = e
             /\ pc' = "main"

Call(ev) == trace' = Append(trace, ev)

\* `if _, err := c.exec.Execute(...); err != nil { return fmt.Errorf("...: %w", err) }`
\* as ApprovePR and MergePR have it: the message is dropped, the error wrapped
FailsWith(p, e) ==
    /\ child' = IF Execute(p).err # <<>> THEN p ELSE child
    /\ cause' = Execute(p).err
    /\ Return(IF Execute(p).err # <<>> THEN e ELSE Nil)

\* what `gh pr review --approve` and `gh pr merge` do to the PR when they succeed
Approves(p) ==
    github' = IF p.code = 0 THEN [github EXCEPT !.approvals = @ + 1] ELSE github

Merges(p) ==
    github' = IF p.code = 0 THEN [github EXCEPT !.merged = TRUE] ELSE github

(***************************************************************************)
(* internal/cli: the RunE closures                                         *)
(***************************************************************************)
validateMergeMethod(method) == method \in ValidMergeMethods

\* cobra.ExactArgs(1), checked before RunE is called
ExactArgs ==
    /\ pc = "Args"
    /\ IF Len(args) # 1
       THEN Return(ErrArgCount)
       ELSE pc' = "RunE" /\ err' = err
    /\ UNCHANGED <<result, stdin, run, github, cause, child, args, warnings, cmd, opts, prNumber, pr, approved, exitCode, trace>>

\* the tail of each RunE closure: parsePR, then Execute(prNum)
ParseAndExecute ==
    LET parsed == parsePR(args)
    IN  IF parsed.err # Nil
        THEN Return(parsed.err) /\ prNumber' = prNumber
        ELSE pc' = "CheckGHInstalled" /\ err' = err /\ prNumber' = parsed.n

reviewCmd ==
    /\ pc = "RunE" /\ cmd = "review"
    /\ ParseAndExecute
    /\ UNCHANGED <<result, stdin, run, github, cause, child, args, warnings, cmd, opts, pr, approved, exitCode, trace>>

mergeCmd ==
    /\ pc = "RunE" /\ cmd = "merge"
    /\ IF validateMergeMethod(opts.MergeMethod)
       THEN ParseAndExecute
       ELSE Return(ErrUnknownMergeMethod) /\ prNumber' = prNumber
    /\ UNCHANGED <<result, stdin, run, github, cause, child, args, warnings, cmd, opts, pr, approved, exitCode, trace>>

fullCmd ==
    /\ pc = "RunE" /\ cmd = "full"
    /\ IF validateMergeMethod(opts.MergeMethod)
       THEN ParseAndExecute
       ELSE Return(ErrUnknownMergeMethod) /\ prNumber' = prNumber
    /\ UNCHANGED <<result, stdin, run, github, cause, child, args, warnings, cmd, opts, pr, approved, exitCode, trace>>

(***************************************************************************)
(* Environment pre-flight and fetch: the same code in all three Execute    *)
(* methods                                                                 *)
(***************************************************************************)
CheckGHInstalled ==
    /\ pc = "CheckGHInstalled"
    /\ \E ok \in BOOLEAN :
         /\ Call(Exec("gh", <<"version">>, ok))
         /\ IF ok THEN pc' = "CheckGitRepo" /\ err' = err
                  ELSE Return(ErrGHNotInstalled)
    /\ UNCHANGED <<result, stdin, run, github, cause, child, args, warnings, cmd, opts, prNumber, pr, approved, exitCode>>

\* CheckGitRepo whose error is dropped by the caller
CheckGitRepo_ErrorIgnored ==
    /\ pc = "CheckGitRepo"
    /\ \E ok \in BOOLEAN :
         /\ Call(Exec("git", <<"rev-parse", "--git-dir">>, ok))
         /\ pc' = "CheckAuth" /\ err' = err
    /\ UNCHANGED <<result, stdin, run, github, cause, child, args, warnings, cmd, opts, prNumber, pr, approved, exitCode>>

CheckGitRepo ==
    /\ pc = "CheckGitRepo"
    /\ \E ok \in BOOLEAN :
         /\ Call(Exec("git", <<"rev-parse", "--git-dir">>, ok))
         /\ IF ok THEN pc' = "CheckAuth" /\ err' = err
                  ELSE Return(ErrNotGitRepo)
    /\ UNCHANGED <<result, stdin, run, github, cause, child, args, warnings, cmd, opts, prNumber, pr, approved, exitCode>>

\* CheckAuth whose error is dropped by the caller
CheckAuth_ErrorIgnored ==
    /\ pc = "CheckAuth"
    /\ \E ok \in BOOLEAN :
         /\ Call(Exec("gh", <<"auth", "status">>, ok))
         /\ pc' = "GetPR" /\ err' = err
    /\ UNCHANGED <<result, stdin, run, github, cause, child, args, warnings, cmd, opts, prNumber, pr, approved, exitCode>>

CheckAuth ==
    /\ pc = "CheckAuth"
    /\ \E ok \in BOOLEAN :
         /\ Call(Exec("gh", <<"auth", "status">>, ok))
         /\ IF ok THEN pc' = "GetPR" /\ err' = err
                  ELSE Return(ErrNotAuthenticated)
    /\ UNCHANGED <<result, stdin, run, github, cause, child, args, warnings, cmd, opts, prNumber, pr, approved, exitCode>>

\* GetPR: the subprocess fails, or prints something json.Unmarshal rejects,
\* or prints a payload that decodes
GetPR ==
    /\ pc = "GetPR"
    /\ \/ \E p \in Failed :
            /\ Call(Exec("gh", GetPRArgs(prNumber), FALSE))
            /\ FailsWith(p, ErrPRNotFound)
            /\ pr' = pr
       \/ /\ Call(Exec("gh", GetPRArgs(prNumber), TRUE))
          /\ Return(ErrParsePR)
          /\ cause' = JSONSyntaxError
          /\ UNCHANGED <<pr, child>>
       \/ \E data \in Payloads :
            /\ Call(Exec("gh", GetPRArgs(prNumber), TRUE))
            /\ pr' = ToPRInfo(data)
            /\ pc' = "GuardOpen"
            /\ UNCHANGED <<err, cause, child>>
    /\ UNCHANGED <<result, stdin, run, github, args, warnings, cmd, opts, prNumber, approved, exitCode>>

(***************************************************************************)
(* cmd/pr-manager: main                                                    *)
(***************************************************************************)
main ==
    /\ pc = "main"
    /\ exitCode' = IF err # Nil THEN 1 ELSE 0
    /\ pc' = "exited"
    /\ UNCHANGED <<result, stdin, run, github, cause, child, args, warnings, cmd, opts, prNumber, pr, approved, err, trace>>

(***************************************************************************)
(* internal/commands/review.go: ReviewCommand.Execute after the fetch      *)
(***************************************************************************)
\* Guard: PR must be open
\* review-only refusing a conflicting PR as the merge workflows do
ReviewGuardOpen_RefusesConflict ==
    /\ pc = "GuardOpen" /\ cmd = "review"
    /\ IF pr.State # PRStateOpen
       THEN Return(ErrNotOpen)
       ELSE IF pr.Mergeable = MergeableConflict
       THEN Return(ErrConflict)
       ELSE pc' = "IsAlreadyApproved" /\ err' = err
    /\ UNCHANGED <<result, stdin, run, github, cause, child, args, warnings, cmd, opts, prNumber, pr, approved, exitCode, trace>>

ReviewGuardOpen ==
    /\ pc = "GuardOpen" /\ cmd = "review"
    /\ IF pr.State # PRStateOpen
       THEN Return(ErrNotOpen)
       ELSE pc' = "IsAlreadyApproved" /\ err' = err
    /\ UNCHANGED <<result, stdin, run, github, cause, child, args, warnings, cmd, opts, prNumber, pr, approved, exitCode, trace>>

\* review without its `if !r.opts.Auto` confirmation block
ReviewIsAlreadyApproved_NoConfirm ==
    /\ pc = "IsAlreadyApproved" /\ cmd = "review"
    /\ \E ok \in BOOLEAN, out \in ReviewOutputs :
         /\ Call(Exec("gh", IsAlreadyApprovedArgs(prNumber), ok))
         /\ approved' = (ok /\ HasApprovedReview(out))
         /\ Warning(ok, approved')
         /\ IF approved'
            THEN Return(Nil)
            ELSE pc' = "ApprovePR" /\ err' = err
    /\ UNCHANGED <<result, stdin, run, github, cause, child, args, cmd, opts, prNumber, pr, exitCode>>

\* the error of IsAlreadyApproved returned to the caller instead of warned about
ReviewIsAlreadyApproved_QueryFatal ==
    /\ pc = "IsAlreadyApproved" /\ cmd = "review"
    /\ \E ok \in BOOLEAN, out \in ReviewOutputs :
         /\ Call(Exec("gh", IsAlreadyApprovedArgs(prNumber), ok))
         /\ approved' = (ok /\ HasApprovedReview(out))
         /\ Warning(ok, approved')
         /\ IF ~ok
            THEN Return(ErrFetchReviews)
            ELSE IF approved'
                 THEN Return(Nil)
                 ELSE /\ pc' = IF ~opts.Auto THEN "Confirm" ELSE "ApprovePR"
                      /\ err' = err
    /\ UNCHANGED <<result, stdin, run, github, cause, child, args, cmd, opts, prNumber, pr, exitCode>>

\* Skip duplicate approvals; a failed query only warns
ReviewIsAlreadyApproved ==
    /\ pc = "IsAlreadyApproved" /\ cmd = "review"
    /\ \E ok \in BOOLEAN, out \in ReviewOutputs :
         /\ Call(Exec("gh", IsAlreadyApprovedArgs(prNumber), ok))
         /\ approved' = (ok /\ HasApprovedReview(out))
         /\ Warning(ok, approved')
         /\ IF approved'
            THEN Return(Nil)
            ELSE /\ pc' = IF ~opts.Auto THEN "Confirm" ELSE "ApprovePR"
                 /\ err' = err
    /\ UNCHANGED <<result, stdin, run, github, cause, child, args, cmd, opts, prNumber, pr, exitCode>>

\* Interactive confirmation
ReviewConfirm ==
    /\ pc = "Confirm" /\ cmd = "review"
    /\ \E in \in StdinReads :
         /\ stdin' = Append(stdin, in)
         /\ Call(Prompt(FmtApprove, Confirm(in)))
         /\ IF ~Confirm(in)
            THEN Return(Nil)
            ELSE pc' = "ApprovePR" /\ err' = err
    /\ UNCHANGED <<result, run, github, cause, child, args, warnings, cmd, opts, prNumber, pr, approved, exitCode>>

\* Approve
ReviewApprovePR ==
    /\ pc = "ApprovePR" /\ cmd = "review"
    /\ \E p \in Processes :
         /\ Call(Exec("gh", ApprovePRArgs(prNumber), p.code = 0))
         /\ FailsWith(p, ErrApprove)
         /\ Approves(p)
    /\ UNCHANGED <<result, stdin, run, args, warnings, cmd, opts, prNumber, pr, approved, exitCode>>

(***************************************************************************)
(* internal/commands/merge.go: MergeCommand.Execute after the fetch        *)
(***************************************************************************)
\* the OPEN guard written as `pr.State == gh.PRStateClosed`
MergeGuardOpen_OnlyClosed ==
    /\ pc = "GuardOpen" /\ cmd = "merge"
    /\ IF pr.State = PRStateClosed
       THEN Return(ErrNotOpen)
       ELSE pc' = "GuardConflict" /\ err' = err
    /\ UNCHANGED <<result, stdin, run, github, cause, child, args, warnings, cmd, opts, prNumber, pr, approved, exitCode, trace>>

MergeGuardOpen ==
    /\ pc = "GuardOpen" /\ cmd = "merge"
    /\ IF pr.State # PRStateOpen
       THEN Return(ErrNotOpen)
       ELSE pc' = "GuardConflict" /\ err' = err
    /\ UNCHANGED <<result, stdin, run, github, cause, child, args, warnings, cmd, opts, prNumber, pr, approved, exitCode, trace>>

\* the conflict guard placed after the merge call instead of before it
MergeGuardConflict_AfterMergePR ==
    /\ pc = "GuardConflict" /\ cmd = "merge"
    /\ IF pr.Mergeable = MergeableConflict
       THEN /\ Call(Exec("gh", MergePRArgs(prNumber, opts.MergeMethod), FALSE))
            /\ Return(ErrConflict)
       ELSE /\ pc' = IF ~opts.Auto THEN "Confirm" ELSE "MergePR"
            /\ err' = err
            /\ trace' = trace
    /\ UNCHANGED <<result, stdin, run, github, cause, child, args, warnings, cmd, opts, prNumber, pr, approved, exitCode>>

\* the confirmation not skipped in automatic mode
MergeGuardConflict_AlwaysConfirm ==
    /\ pc = "GuardConflict" /\ cmd = "merge"
    /\ IF pr.Mergeable = MergeableConflict
       THEN Return(ErrConflict)
       ELSE pc' = "Confirm" /\ err' = err
    /\ UNCHANGED <<result, stdin, run, github, cause, child, args, warnings, cmd, opts, prNumber, pr, approved, exitCode, trace>>

MergeGuardConflict ==
    /\ pc = "GuardConflict" /\ cmd = "merge"
    /\ IF pr.Mergeable = MergeableConflict
       THEN Return(ErrConflict)
       ELSE /\ pc' = IF ~opts.Auto THEN "Confirm" ELSE "MergePR"
            /\ err' = err
    /\ UNCHANGED <<result, stdin, run, github, cause, child, args, warnings, cmd, opts, prNumber, pr, approved, exitCode, trace>>

MergeConfirm ==
    /\ pc = "Confirm" /\ cmd = "merge"
    /\ \E in \in StdinReads :
         /\ stdin' = Append(stdin, in)
         /\ Call(Prompt(FmtMerge, Confirm(in)))
         /\ IF ~Confirm(in)
            THEN Return(Nil)
            ELSE pc' = "MergePR" /\ err' = err
    /\ UNCHANGED <<result, run, github, cause, child, args, warnings, cmd, opts, prNumber, pr, approved, exitCode>>

\* merge-only trying the merge call a second time when the first one fails
MergeMergePR_RetryOnce ==
    /\ pc = "MergePR" /\ cmd = "merge"
    /\ \E p \in Processes :
         /\ Call(Exec("gh", MergePRArgs(prNumber, opts.MergeMethod), p.code = 0))
         /\ IF p.code # 0 /\ ~\E i \in 1..Len(trace) : Len(trace[i].args) > 1 /\ trace[i].args[2] = "merge"
            THEN UNCHANGED <<pc, err, cause, child>>
            ELSE FailsWith(p, ErrMerge)
         /\ Merges(p)
    /\ UNCHANGED <<result, stdin, run, args, warnings, cmd, opts, prNumber, pr, approved, exitCode>>

MergeMergePR ==
    /\ pc = "MergePR" /\ cmd = "merge"
    /\ \E p \in Processes :
         /\ Call(Exec("gh", MergePRArgs(prNumber, opts.MergeMethod), p.code = 0))
         /\ FailsWith(p, ErrMerge)
         /\ Merges(p)
    /\ UNCHANGED <<result, stdin, run, args, warnings, cmd, opts, prNumber, pr, approved, exitCode>>

(***************************************************************************)
(* internal/commands/full.go: FullCommand.Execute after the fetch,         *)
(* with doReview and doMerge                                               *)
(***************************************************************************)
\* Execute looking at the mergeability together with the state, before doReview
FullGuardOpen_ConflictCheckFirst ==
    /\ pc = "GuardOpen" /\ cmd = "full"
    /\ IF pr.State # PRStateOpen
       THEN Return(ErrNotOpen)
       ELSE IF pr.Mergeable = MergeableConflict
       THEN Return(ErrConflict)
       ELSE pc' = "IsAlreadyApproved" /\ err' = err
    /\ UNCHANGED <<result, stdin, run, github, cause, child, args, warnings, cmd, opts, prNumber, pr, approved, exitCode, trace>>

FullGuardOpen ==
    /\ pc = "GuardOpen" /\ cmd = "full"
    /\ IF pr.State # PRStateOpen
       THEN Return(ErrNotOpen)
       ELSE pc' = "IsAlreadyApproved" /\ err' = err
    /\ UNCHANGED <<result, stdin, run, github, cause, child, args, warnings, cmd, opts, prNumber, pr, approved, exitCode, trace>>

\* where Execute continues once doReview has returned nil
AfterDoReview == IF ~opts.Auto THEN "Confirm" ELSE "GuardConflict"

\* doReview that never looks at `approved`
doReviewIsAlreadyApproved_NoSkip ==
    /\ pc = "IsAlreadyApproved" /\ cmd = "full"
    /\ \E ok \in BOOLEAN, out \in ReviewOutputs :
         /\ Call(Exec("gh", IsAlreadyApprovedArgs(pr.Number), ok))
         /\ approved' = (ok /\ HasApprovedReview(out))
         /\ Warning(ok, approved')
         /\ pc' = "ApprovePR"
    /\ UNCHANGED <<result, stdin, run, github, cause, child, args, cmd, opts, prNumber, pr, err, exitCode>>

\* the already-approved skip ending the whole workflow, as in review-only
doReviewIsAlreadyApproved_SkipEndsRun ==
    /\ pc = "IsAlreadyApproved" /\ cmd = "full"
    /\ \E ok \in BOOLEAN, out \in ReviewOutputs :
         /\ Call(Exec("gh", IsAlreadyApprovedArgs(pr.Number), ok))
         /\ approved' = (ok /\ HasApprovedReview(out))
         /\ Warning(ok, approved')
         /\ IF approved'
            THEN Return(Nil)
            ELSE pc' = "ApprovePR" /\ err' = err
    /\ UNCHANGED <<result, stdin, run, github, cause, child, args, cmd, opts, prNumber, pr, exitCode>>

\* doReview looking at `approved` in interactive mode only
doReviewIsAlreadyApproved_AutoIgnoresApproved ==
    /\ pc = "IsAlreadyApproved" /\ cmd = "full"
    /\ \E ok \in BOOLEAN, out \in ReviewOutputs :
         /\ Call(Exec("gh", IsAlreadyApprovedArgs(pr.Number), ok))
         /\ approved' = (ok /\ HasApprovedReview(out))
         /\ Warning(ok, approved')
         /\ pc' = IF approved' /\ ~opts.Auto THEN AfterDoReview ELSE "ApprovePR"
    /\ UNCHANGED <<result, stdin, run, github, cause, child, args, cmd, opts, prNumber, pr, err, exitCode>>

\* doReview, up to its existing-review query
doReviewIsAlreadyApproved ==
    /\ pc = "IsAlreadyApproved" /\ cmd = "full"
    /\ \E ok \in BOOLEAN, out \in ReviewOutputs :
         /\ Call(Exec("gh", IsAlreadyApprovedArgs(pr.Number), ok))
         /\ approved' = (ok /\ HasApprovedReview(out))
         /\ Warning(ok, approved')
         /\ pc' = IF approved' THEN AfterDoReview ELSE "ApprovePR"
    /\ UNCHANGED <<result, stdin, run, github, cause, child, args, cmd, opts, prNumber, pr, err, exitCode>>

\* doReview, its approve call
doReviewApprovePR ==
    /\ pc = "ApprovePR" /\ cmd = "full"
    /\ \E p \in Processes :
         /\ Call(Exec("gh", ApprovePRArgs(pr.Number), p.code = 0))
         /\ IF p.code = 0
            THEN pc' = AfterDoReview /\ UNCHANGED <<err, cause, child>>
            ELSE FailsWith(p, ErrApprove)
         /\ Approves(p)
    /\ UNCHANGED <<result, stdin, run, args, warnings, cmd, opts, prNumber, pr, approved, exitCode>>

\* the intermediate confirmation with its answer ignored
FullConfirm_AnswerIgnored ==
    /\ pc = "Confirm" /\ cmd = "full"
    /\ \E in \in StdinReads :
         /\ stdin' = Append(stdin, in)
         /\ Call(Prompt(FmtProceed, Confirm(in)))
         /\ pc' = "GuardConflict" /\ err' = err
    /\ UNCHANGED <<result, run, github, cause, child, args, warnings, cmd, opts, prNumber, pr, approved, exitCode>>

\* Intermediate confirmation
FullConfirm ==
    /\ pc = "Confirm" /\ cmd = "full"
    /\ \E in \in StdinReads :
         /\ stdin' = Append(stdin, in)
         /\ Call(Prompt(FmtProceed, Confirm(in)))
         /\ IF ~Confirm(in)
            THEN Return(Nil)
            ELSE pc' = "GuardConflict" /\ err' = err
    /\ UNCHANGED <<result, run, github, cause, child, args, warnings, cmd, opts, prNumber, pr, approved, exitCode>>

\* doMerge without its conflict guard
doMergeGuardConflict_NoGuard ==
    /\ pc = "GuardConflict" /\ cmd = "full"
    /\ pc' = "MergePR"
    /\ UNCHANGED <<result, stdin, run, github, cause, child, args, warnings, cmd, opts, prNumber, pr, approved, err, exitCode, trace>>

\* doMerge fetching the PR again before it looks at the mergeability
doMergeGuardConflict_Refetch ==
    /\ pc = "GuardConflict" /\ cmd = "full"
    /\ \E data \in Payloads :
         /\ Call(Exec("gh", GetPRArgs(pr.Number), TRUE))
         /\ pr' = ToPRInfo(data)
         /\ IF pr'.Mergeable = MergeableConflict
            THEN Return(ErrConflict)
            ELSE pc' = "MergePR" /\ err' = err
    /\ UNCHANGED <<result, stdin, run, github, cause, child, args, warnings, cmd, opts, prNumber, approved, exitCode>>

\* doMerge asking GitHub for the PR as it is now instead of reading the snapshot
doMergeGuardConflict_ReadsLive ==
    /\ pc = "GuardConflict" /\ cmd = "full"
    /\ Call(Exec("gh", GetPRArgs(pr.Number), TRUE))
    /\ IF github.state # PRStateOpen
       THEN Return(ErrNotOpen)
       ELSE IF github.mergeable = MergeableConflict
       THEN Return(ErrConflict)
       ELSE pc' = "MergePR" /\ err' = err
    /\ UNCHANGED <<result, stdin, run, github, cause, child, args, warnings, cmd, opts, prNumber, pr, approved, exitCode>>

\* doMerge, its conflict guard
doMergeGuardConflict ==
    /\ pc = "GuardConflict" /\ cmd = "full"
    /\ IF pr.Mergeable = MergeableConflict
       THEN Return(ErrConflict)
       ELSE pc' = "MergePR" /\ err' = err
    /\ UNCHANGED <<result, stdin, run, github, cause, child, args, warnings, cmd, opts, prNumber, pr, approved, exitCode, trace>>

\* doMerge, its merge call
doMergeMergePR ==
    /\ pc = "MergePR" /\ cmd = "full"
    /\ \E p \in Processes :
         /\ Call(Exec("gh", MergePRArgs(pr.Number, opts.MergeMethod), p.code = 0))
         /\ FailsWith(p, ErrMerge)
         /\ Merges(p)
    /\ UNCHANGED <<result, stdin, run, args, warnings, cmd, opts, prNumber, pr, approved, exitCode>>

(***************************************************************************)
(* The run                                                                 *)
(***************************************************************************)
Next ==
    \/ ExactArgs
    \/ reviewCmd \/ mergeCmd \/ fullCmd
    \/ CheckGHInstalled \/ CheckGitRepo \/ CheckAuth \/ GetPR
    \/ ReviewGuardOpen \/ ReviewIsAlreadyApproved \/ ReviewConfirm \/ ReviewApprovePR
    \/ MergeGuardOpen \/ MergeGuardConflict \/ MergeConfirm \/ MergeMergePR
    \/ FullGuardOpen \/ doReviewIsAlreadyApproved \/ doReviewApprovePR
    \/ FullConfirm \/ doMergeGuardConflict \/ doMergeMergePR
    \/ main

Spec == Init /\ [][Next]_vars

(***************************************************************************)
(* GHClient.MergePR called on its own, with any method string: the values  *)
(* the workflows let through and values they reject                        *)
(***************************************************************************)
AnyMethods == MethodInputs \cup {"", "SQUASH", "Rebase", "merge-commit"}

InitMergePR ==
    /\ cmd = "merge"
    /\ opts \in [Auto : {TRUE}, MergeMethod : AnyMethods]
    /\ prNumber \in PRNumbers
    /\ args = <<Chars(prNumber)>>
    /\ pc = "MergePR"
    /\ pr = NoPR
    /\ approved = FALSE
    /\ err = Nil
    /\ exitCode = Running
    /\ trace = <<>>
    /\ warnings = <<>>
    /\ child = NoChild
    /\ cause = <<>>
    /\ github = NoActivity
    /\ run = 1
    /\ stdin = <<>>
    /\ result = NoResult

MergePR ==
    /\ pc = "MergePR"
    /\ \E p \in Processes :
         /\ Call(Exec("gh", MergePRArgs(prNumber, opts.MergeMethod), p.code = 0))
         /\ FailsWith(p, ErrMerge)
         /\ Merges(p)
    /\ UNCHANGED <<result, stdin, run, args, warnings, cmd, opts, prNumber, pr, approved, exitCode>>

NextMergePR == MergePR \/ main

SpecMergePR == InitMergePR /\ [][NextMergePR]_vars

(***************************************************************************)
(* Successive invocations on one PR.  GitHub keeps what earlier runs did;  *)
(* a run ends by exiting or by being interrupted at any point, and the     *)
(* tool is then invoked again.                                             *)
(***************************************************************************)
MaxRuns == 3

InitRuns ==
    /\ cmd \in {"review", "merge", "full"}
    /\ opts \in [Auto : BOOLEAN, MergeMethod : {DefaultMergeMethod}]
    /\ args \in { <<Chars(n)>> : n \in 1..MaxPR }
    /\ prNumber = 0
    /\ pc = "Args"
    /\ pr = NoPR
    /\ approved = FALSE
    /\ err = Nil
    /\ exitCode = Running
    /\ trace = <<>>
    /\ warnings = <<>>
    /\ child = NoChild
    /\ cause = <<>>
    /\ github = NoActivity
    /\ run = 1
    /\ stdin = <<>>
    /\ result = NoResult

\* the process is gone (it exited, or a signal ended it wherever it was) and
\* the user invokes the tool again on the same PR
Invoke ==
    /\ run < MaxRuns
    /\ run' = run + 1
    /\ cmd' \in {"review", "merge", "full"}
    /\ opts' \in [Auto : BOOLEAN, MergeMethod : {DefaultMergeMethod}]
    /\ prNumber' = 0
    /\ pc' = "Args"
    /\ pr' = NoPR
    /\ approved' = FALSE
    /\ err' = Nil
    /\ exitCode' = Running
    /\ trace' = <<>>
    /\ warnings' = <<>>
    /\ child' = NoChild
    /\ cause' = <<>>
    /\ stdin' = <<>>
    /\ UNCHANGED <<result, args, github>>

\* the external tool answers truthfully: a fetch that succeeds reports the
\* requested PR, as MERGED once it has been merged, and an existing-review
\* query that succeeds lists the approving review this tool submitted
TruthfulFetch ==
    pc' = "GuardOpen" =>
        /\ pr'.Number = prNumber
        /\ github.merged => pr'.State = PRStateMerged

TruthfulReviews ==
    (trace'[Len(trace')].ok /\ github.approvals > 0) => approved'

NextRuns ==
    \/ Invoke
    \/ ExactArgs
    \/ reviewCmd \/ mergeCmd \/ fullCmd
    \/ CheckGHInstalled \/ CheckGitRepo \/ CheckAuth
    \/ GetPR /\ TruthfulFetch
    \/ ReviewGuardOpen
    \/ ReviewIsAlreadyApproved /\ TruthfulReviews
    \/ ReviewConfirm \/ ReviewApprovePR
    \/ MergeGuardOpen \/ MergeGuardConflict \/ MergeConfirm \/ MergeMergePR
    \/ FullGuardOpen
    \/ doReviewIsAlreadyApproved /\ TruthfulReviews
    \/ doReviewApprovePR
    \/ FullConfirm \/ doMergeGuardConflict \/ doMergeMergePR
    \/ main

SpecRuns == InitRuns /\ [][NextRuns]_vars

(***************************************************************************)
(* The root command: `pr-manager <PR_NUMBER>` with no verb.  buildRoot     *)
(* gives the root command no Run function and no Args validator, and adds  *)
(* the three subcommands; cobra then takes the first positional argument   *)
(* for a subcommand name and rejects it.                                   *)
(***************************************************************************)
NoVerb == ""

ErrUnknownCommand == "unknown command for \"pr-manager\""

InitRoot ==
    /\ cmd = NoVerb
    /\ opts \in [Auto : BOOLEAN, MergeMethod : MethodInputs]
    /\ args \in ArgInputs
    /\ prNumber = 0
    /\ pc = "Args"
    /\ pr = NoPR
    /\ approved = FALSE
    /\ err = Nil
    /\ exitCode = Running
    /\ trace = <<>>
    /\ warnings = <<>>
    /\ child = NoChild
    /\ cause = <<>>
    /\ github = NoActivity
    /\ run = 1
    /\ stdin = <<>>
    /\ result = NoResult

\* cobra on the root command: with no positional argument it prints the help
\* text and returns nil; with one it returns the unknown-command error
buildRoot ==
    /\ pc = "Args" /\ cmd = NoVerb
    /\ Return(IF Len(args) = 0 THEN Nil ELSE ErrUnknownCommand)
    /\ UNCHANGED <<result, stdin, run, github, cause, child, args, warnings, cmd, opts, prNumber, pr, approved, exitCode, trace>>

NextRoot == buildRoot \/ main

SpecRoot == InitRoot /\ [][NextRoot]_vars

(***************************************************************************)
(* ConsolePrinter.Confirm called on its own, on every line of up to        *)
(* MaxLine characters over a small alphabet and on end of stream           *)
(***************************************************************************)
MaxLine == 4

Reads ==
    { [eof |-> TRUE, text |-> <<>>] }
      \cup { [eof |-> FALSE, text |-> l] :
                l \in UNION { [1..n -> {"y", "Y", "e", "E", "s", "S", "n", " ", "\t"}] : n \in 0..MaxLine } }

InitConfirm ==
    /\ cmd = "merge"
    /\ opts = [Auto |-> FALSE, MergeMethod |-> DefaultMergeMethod]
    /\ args = <<Chars(MaxPR)>>
    /\ prNumber = MaxPR
    /\ pc = "Confirm"
    /\ pr = NoPR
    /\ approved = FALSE
    /\ err = Nil
    /\ exitCode = Running
    /\ trace = <<>>
    /\ warnings = <<>>
    /\ child = NoChild
    /\ cause = <<>>
    /\ github = NoActivity
    /\ run = 1
    /\ stdin = <<>>
    /\ result = NoResult

PrinterConfirm ==
    /\ pc = "Confirm"
    /\ \E in \in Reads :
         /\ stdin' = Append(stdin, in)
         /\ Call(Prompt(FmtMerge, Confirm(in)))
         /\ Return(Nil)
    /\ UNCHANGED <<result, run, github, cause, child, args, warnings, cmd, opts, prNumber, pr, approved, exitCode>>

NextConfirm == PrinterConfirm \/ main

SpecConfirm == InitConfirm /\ [][NextConfirm]_vars

(***************************************************************************)
(* The legacy shell script pr_script.sh: main, approve_pr, merge_pr and    *)
(* full_workflow, run as `pr_script.sh full <PR_NUMBER> [--auto] [-m M]`.  *)
(* opts.Auto is skip_interactive, opts.MergeMethod is merge_method.        *)
(***************************************************************************)
\* the `case "$merge_method"` of merge_pr
merge_flag(method) ==
    CASE method = "merge"  -> "--merge"
      [] method = "rebase" -> "--rebase"
      [] method = "squash" -> "--squash"
      [] OTHER             -> "--auto"

\* `read -r response`: the line without leading and trailing IFS white
\* space; nothing at end of input
RECURSIVE StripIFS(_)
StripIFS(s) ==
    IF s = <<>> THEN <<>>
    ELSE IF Head(s) \in {" ", "\t"} THEN StripIFS(Tail(s))
    ELSE IF s[Len(s)] \in {" ", "\t"} THEN StripIFS(SubSeq(s, 1, Len(s) - 1))
    ELSE s

response(in) == IF in.eof THEN <<>> ELSE StripIFS(in.text)

\* the pattern `[yY]|[yY][eE][sS]`
CaseYes(w) ==
    \/ Len(w) = 1 /\ w[1] \in {"y", "Y"}
    \/ Len(w) = 3 /\ w[1] \in {"y", "Y"} /\ w[2] \in {"e", "E"} /\ w[3] \in {"s", "S"}

\* `exit N`, or the status of the last command of main
ShExit(code) == pc' = "exited" /\ exitCode' = code

ShFrame == UNCHANGED <<result, cmd, opts, prNumber, pr, approved, err, warnings, args, child, cause, github, run>>

InitLegacy ==
    /\ cmd = "full"
    /\ opts \in [Auto : BOOLEAN, MergeMethod : MethodInputs \cup {"auto"}]
    /\ args \in { <<Chars(n)>> : n \in 1..MaxPR }
    /\ prNumber = Atoi(args[1])
    /\ pc = "check_git_repo"
    /\ pr = NoPR
    /\ approved = FALSE
    /\ err = Nil
    /\ exitCode = Running
    /\ trace = <<>>
    /\ warnings = <<>>
    /\ child = NoChild
    /\ cause = <<>>
    /\ github = NoActivity
    /\ run = 1
    /\ stdin = <<>>
    /\ result = NoResult

check_git_repo ==
    /\ pc = "check_git_repo"
    /\ \E ok \in BOOLEAN :
         /\ Call(Exec("git", <<"rev-parse", "--git-dir">>, ok))
         /\ IF ok THEN pc' = "check_gh_cli" /\ exitCode' = exitCode ELSE ShExit(1)
    /\ stdin' = stdin
    /\ ShFrame

\* `command -v gh`, then `gh auth status`
check_gh_cli ==
    /\ pc = "check_gh_cli"
    /\ \E found \in BOOLEAN, ok \in BOOLEAN :
         IF ~found
         THEN /\ Call(Exec("command", <<"-v", "gh">>, FALSE))
              /\ ShExit(1)
         ELSE /\ trace' = trace \o << Exec("command", <<"-v", "gh">>, TRUE),
                                      Exec("gh", <<"auth", "status">>, ok) >>
              /\ IF ok THEN pc' = "approve_pr" /\ exitCode' = exitCode ELSE ShExit(1)
    /\ stdin' = stdin
    /\ ShFrame

\* approve_pr: `if ! gh pr view N; then return 1`, and then full_workflow's
\* else branch returns 1
approve_pr_view ==
    /\ pc = "approve_pr"
    /\ \E ok \in BOOLEAN :
         /\ Call(Exec("gh", <<"pr", "view", Itoa(prNumber)>>, ok))
         /\ IF ok THEN pc' = "latestReviews" /\ exitCode' = exitCode ELSE ShExit(1)
    /\ stdin' = stdin
    /\ ShFrame

\* approve_pr: `if gh pr view N --json latestReviews --jq ... | grep -q .`,
\* else `gh pr review -a N`, whose status nothing reads (approve_pr runs as
\* the condition of an `if`, where `set -e` does not apply)
approve_pr_review ==
    /\ pc = "latestReviews"
    /\ \E ok \in BOOLEAN, anyApproved \in BOOLEAN, reviewed \in BOOLEAN :
         /\ ~ok => ~anyApproved
         /\ anyApproved => reviewed
         /\ trace' = trace \o << Exec("gh", <<"pr", "view", Itoa(prNumber), "--json", "latestReviews", "--jq", "select(.state == \"APPROVED\")">>, ok) >>
                           \o (IF anyApproved THEN <<>>
                               ELSE << Exec("gh", <<"pr", "review", "-a", Itoa(prNumber)>>, reviewed) >>)
         /\ approved' = anyApproved
    /\ pc' = "press_enter"
    /\ UNCHANGED <<result, stdin, exitCode>>
    /\ UNCHANGED <<result, cmd, opts, prNumber, pr, err, warnings, args, child, cause, github, run>>

\* approve_pr: `if [ "$skip_interactive" = false ]; then ...; read -r; fi; return 0`
approve_pr_read ==
    /\ pc = "press_enter"
    /\ IF opts.Auto = FALSE
       THEN \E in \in StdinReads :
              /\ stdin' = Append(stdin, in)
              /\ Call(Prompt("Review completed. Press Enter to continue...", TRUE))
       ELSE UNCHANGED <<stdin, trace>>
    /\ pc' = "proceed"
    /\ exitCode' = exitCode
    /\ ShFrame

\* full_workflow: `if ! [ "$skip_interactive" = false ]; then ...; read -r
\* response; case ...`.  The read is a plain command of full_workflow, so at
\* end of input `set -e` ends the script with status 1; a declined question
\* returns 0.
full_workflow ==
    /\ pc = "proceed"
    /\ IF ~(opts.Auto = FALSE)
       THEN \E in \in StdinReads :
              /\ stdin' = Append(stdin, in)
              /\ Call(Prompt("Do you want to proceed with merge? (y/N)", CaseYes(response(in))))
              /\ IF in.eof THEN ShExit(1)
                 ELSE IF CaseYes(response(in)) THEN pc' = "pr_state" /\ exitCode' = exitCode
                 ELSE ShExit(0)
       ELSE /\ UNCHANGED <<stdin, trace, exitCode>>
            /\ pc' = "pr_state"
    /\ ShFrame

\* merge_pr: the state query and `if [ "$pr_state" != "OPEN" ]; then return 1`
merge_pr_state ==
    /\ pc = "pr_state"
    /\ \E ok \in BOOLEAN, pr_state \in RawStates :
         /\ Call(Exec("gh", <<"pr", "view", Itoa(prNumber), "--json", "state", "--jq", ".state">>, ok))
         /\ IF ok /\ pr_state = PRStateOpen
            THEN pc' = "mergeable" /\ exitCode' = exitCode
            ELSE ShExit(1)
    /\ stdin' = stdin
    /\ ShFrame

\* merge_pr: the mergeable query and `if [ "$mergeable" = "CONFLICTING" ]`;
\* a failed query leaves the variable empty and the script goes on
merge_pr_mergeable ==
    /\ pc = "mergeable"
    /\ \E ok \in BOOLEAN, mergeable \in RawMergeables :
         /\ Call(Exec("gh", <<"pr", "view", Itoa(prNumber), "--json", "mergeable", "--jq", ".mergeable">>, ok))
         /\ IF ok /\ mergeable = MergeableConflict
            THEN ShExit(1)
            ELSE pc' = "are_you_sure" /\ exitCode' = exitCode
    /\ stdin' = stdin
    /\ ShFrame

\* merge_pr: the confirmation (unless skip_interactive) and `gh pr merge`
merge_pr_read ==
    /\ pc = "are_you_sure"
    /\ IF opts.Auto = FALSE
       THEN \E in \in StdinReads :
              /\ stdin' = Append(stdin, in)
              /\ Call(Prompt("Are you sure you want to merge PR #${pr_number}? (y/N)", CaseYes(response(in))))
              /\ IF CaseYes(response(in)) THEN pc' = "gh_pr_merge" /\ exitCode' = exitCode
                 ELSE ShExit(1)
       ELSE /\ UNCHANGED <<stdin, trace, exitCode>>
            /\ pc' = "gh_pr_merge"
    /\ ShFrame

merge_pr_merge ==
    /\ pc = "gh_pr_merge"
    /\ \E ok \in BOOLEAN :
         /\ Call(Exec("gh", <<"pr", "merge", Itoa(prNumber), merge_flag(opts.MergeMethod)>>, ok))
         /\ ShExit(IF ok THEN 0 ELSE 1)
    /\ stdin' = stdin
    /\ ShFrame

NextLegacy ==
    \/ check_git_repo
    \/ check_gh_cli
    \/ approve_pr_view
    \/ approve_pr_review
    \/ approve_pr_read
    \/ full_workflow
    \/ merge_pr_state
    \/ merge_pr_mergeable
    \/ merge_pr_read
    \/ merge_pr_merge

SpecLegacy == InitLegacy /\ [][NextLegacy]_vars

(***************************************************************************)
(* The full workflow while somebody else works on the same PR: GitHub      *)
(* holds the PR's lifecycle state and mergeability, the fetch reports      *)
(* them as they are at that moment, and another actor may close, merge or  *)
(* push to the PR at any point of the run.                                 *)
(***************************************************************************)
InitRace ==
    /\ cmd = "full"
    /\ opts \in [Auto : BOOLEAN, MergeMethod : {DefaultMergeMethod}]
    /\ args \in { <<Chars(n)>> : n \in 1..MaxPR }
    /\ prNumber = 0
    /\ pc = "Args"
    /\ pr = NoPR
    /\ approved = FALSE
    /\ err = Nil
    /\ exitCode = Running
    /\ trace = <<>>
    /\ warnings = <<>>
    /\ child = NoChild
    /\ cause = <<>>
    /\ github \in [approvals : {0}, merged : {FALSE}, state : {PRStateOpen, PRStateClosed, PRStateMerged}, mergeable : {MergeableYes, MergeableConflict, MergeableUnknown}]
    /\ run = 1
    /\ stdin = <<>>
    /\ result = NoResult

\* another user or process closes, merges or pushes to the PR while the
\* run is in progress
ExternalActor ==
    /\ pc # "exited"
    /\ \E s \in {PRStateOpen, PRStateClosed, PRStateMerged}, m \in {MergeableYes, MergeableConflict, MergeableUnknown} :
         /\ github' = [github EXCEPT !.state = s, !.mergeable = m]
         /\ github' # github
    /\ UNCHANGED <<result, stdin, run, cause, child, args, warnings, cmd, opts, prNumber, pr, approved, err, exitCode, trace, pc>>

\* a fetch that succeeds reports the requested PR as it is at that moment
LiveFetch ==
    pc' = "GuardOpen" =>
        /\ pr'.Number = prNumber
        /\ pr'.State = github.state
        /\ pr'.Mergeable = github.mergeable

\* GitHub merges only an open PR without conflicts
LiveMerge ==
    trace'[Len(trace')].ok => github.state = PRStateOpen /\ github.mergeable # MergeableConflict

NextRace ==
    \/ ExternalActor
    \/ ExactArgs
    \/ fullCmd
    \/ CheckGHInstalled \/ CheckGitRepo \/ CheckAuth
    \/ GetPR /\ LiveFetch
    \/ FullGuardOpen
    \/ doReviewIsAlreadyApproved
    \/ doReviewApprovePR
    \/ FullConfirm
    \/ doMergeGuardConflict
    \/ doMergeMergePR /\ LiveMerge
    \/ main

SpecRace == InitRace /\ [][NextRace]_vars

(***************************************************************************)
(* GHClient.IsAlreadyApproved called on its own, on review lists of up to  *)
(* MaxReviews records printed in several JSON layouts                      *)
(***************************************************************************)
MaxReviews == 2

ReviewStates == {"\"APPROVED\"", "\"COMMENTED\"", "\"CHANGES_REQUESTED\"", "\"DISMISSED\""}

ReviewLists == UNION { [1..n -> ReviewStates] : n \in 0..MaxReviews }

\* the white space a JSON printer may put before and after the colon of a
\* member: none and one space are what `gh` prints (compact, indented)
Layouts ==
    [before : {<<>>, <<" ">>},
     after  : {<<>>, <<" ">>, <<" ", " ">>, <<"\t">>, <<"\n">>}]

Member(key, value, layout) == <<key>> \o layout.before \o <<":">> \o layout.after \o value

ReviewRecord(state, layout) ==
    <<"{">> \o Member("\"body\"", <<"\"LGTM\"">>, layout)
            \o <<",">> \o Member("\"state\"", <<state>>, layout) \o <<"}">>

RECURSIVE ReviewRecords(_, _)
ReviewRecords(reviews, layout) ==
    IF reviews = <<>> THEN <<>>
    ELSE ReviewRecord(Head(reviews), layout)
           \o (IF Len(reviews) > 1 THEN <<",">> ELSE <<>>)
           \o ReviewRecords(Tail(reviews), layout)

\* standard output of `gh pr view N --json reviews` for a list of reviews
ReviewsJSON(reviews, layout) ==
    <<"{">> \o Member("\"reviews\"", <<"[">> \o ReviewRecords(reviews, layout) \o <<"]">>, layout)
            \o <<"}", "\n">>

InitReviews ==
    /\ cmd = "review"
    /\ opts = [Auto |-> TRUE, MergeMethod |-> DefaultMergeMethod]
    /\ args \in { <<Chars(n)>> : n \in 1..MaxPR }
    /\ prNumber = Atoi(args[1])
    /\ pc = "IsAlreadyApproved"
    /\ pr = NoPR
    /\ approved = FALSE
    /\ err = Nil
    /\ exitCode = Running
    /\ trace = <<>>
    /\ warnings = <<>>
    /\ child = NoChild
    /\ cause = <<>>
    /\ github = NoActivity
    /\ run = 1
    /\ stdin = <<>>
    /\ result = NoResult

IsAlreadyApproved ==
    /\ pc = "IsAlreadyApproved"
    /\ \/ \E reviews \in ReviewLists, layout \in Layouts :
            /\ Call(Exec("gh", IsAlreadyApprovedArgs(prNumber), TRUE))
            /\ child' = [stdout |-> ReviewsJSON(reviews, layout), stderr |-> <<>>, code |-> 0]
            /\ approved' = HasApprovedReview(Execute(child').out)
            /\ Return(Nil)
            /\ cause' = cause
       \/ \E p \in Failed :
            /\ Call(Exec("gh", IsAlreadyApprovedArgs(prNumber), FALSE))
            /\ approved' = FALSE
            /\ FailsWith(p, ErrFetchReviews)
    /\ UNCHANGED <<result, stdin, run, github, args, warnings, cmd, opts, prNumber, pr, exitCode>>

NextReviews == IsAlreadyApproved \/ main

SpecReviews == InitReviews /\ [][NextReviews]_vars

(***************************************************************************)
(* OSExecutor.Execute called on its own, on every subprocess outcome with  *)
(* output streams of up to MaxStream tokens                                *)
(***************************************************************************)
MaxStream == 2

Outcomes ==
    LET Streams == UNION { [1..n -> {"ok", " ", "\n"}] : n \in 0..MaxStream }
    IN  [stdout : Streams, stderr : Streams, code : {0, 1, 4}]

InitExecute ==
    /\ cmd = "review"
    /\ opts = [Auto |-> TRUE, MergeMethod |-> DefaultMergeMethod]
    /\ args = <<Chars(MaxPR)>>
    /\ prNumber = MaxPR
    /\ pc = "Execute"
    /\ pr = NoPR
    /\ approved = FALSE
    /\ err = Nil
    /\ exitCode = Running
    /\ trace = <<>>
    /\ warnings = <<>>
    /\ child = NoChild
    /\ cause = <<>>
    /\ github = NoActivity
    /\ run = 1
    /\ stdin = <<>>
    /\ result = NoResult

\* e.Execute("gh", "version"): cmd.Run() once, then the two returns
OSExecutorExecute ==
    /\ pc = "Execute"
    /\ \E p \in Outcomes :
         /\ Call(Exec("gh", <<"version">>, p.code = 0))
         /\ child' = p
         /\ result' = Execute(p)
         /\ Return(IF Execute(p).err # <<>> THEN ErrGHNotInstalled ELSE Nil)
    /\ UNCHANGED <<stdin, run, github, cause, args, warnings, cmd, opts, prNumber, pr, approved, exitCode>>

NextExecute == OSExecutorExecute \/ main

SpecExecute == InitExecute /\ [][NextExecute]_vars

(***************************************************************************)
(* The run under its scheduling: one goroutine, every subprocess call and  *)
(* every read of standard input returns, so the next step is always taken  *)
(***************************************************************************)
SpecFair == Spec /\ WF_vars(Next)

(***************************************************************************)
(* Reading the history                                                     *)
(***************************************************************************)
IsExec(e)    == e.kind = "exec"
IsPrompt(e)  == e.kind = "confirm"

IsEnvCheck(e) ==
    /\ IsExec(e)
    /\ \/ e.name = "gh"  /\ e.args = <<"version">>
       \/ e.name = "git" /\ e.args = <<"rev-parse", "--git-dir">>
       \/ e.name = "gh"  /\ e.args = <<"auth", "status">>

IsGhPR(e, verb) ==
    IsExec(e) /\ e.name = "gh" /\ Len(e.args) >= 3 /\ e.args[1] = "pr" /\ e.args[2] = verb

IsFetchCall(e)   == IsGhPR(e, "view") /\ e.args[Len(e.args)] # "reviews"
IsReviewQuery(e) == IsGhPR(e, "view") /\ e.args[Len(e.args)] = "reviews"
IsApproveCall(e) == IsGhPR(e, "review") /\ e.args[Len(e.args)] = "--approve"
IsMergeCall(e)   == IsGhPR(e, "merge")
IsMutatingCall(e) == IsApproveCall(e) \/ IsMergeCall(e)

Events == 1..Len(trace)
ApproveCalls == {i \in Events : IsApproveCall(trace[i])}
MergeCalls   == {i \in Events : IsMergeCall(trace[i])}
Prompts      == {i \in Events : IsPrompt(trace[i])}
Declined     == {i \in Prompts : ~trace[i].ok}

Returned == pc \in {"main", "exited"}
Exited   == pc = "exited"

SnapshotOpen        == pr.State = PRStateOpen
SnapshotConflicting == pr.Mergeable = MergeableConflict

(***************************************************************************)
(* Claims                                                                  *)
(***************************************************************************)
EndedWithGuardError == Returned /\ err \in {ErrNotOpen, ErrConflict}

\* the fetched payload reports the number that was asked for, as the real
\* external tool does
FaithfulSnapshot == pr.Number = prNumber

\* C1 (as stated): in every workflow, a run that ends with a state-guard
\* error (snapshot not OPEN, or snapshot CONFLICTING) has issued no
\* approve-action call and no merge-action call.  (Stated for the runs whose
\* payload reports the requested number, which is all a failing run needs.)
C1_GuardErrorNoMutation ==
    (FaithfulSnapshot /\ EndedWithGuardError) => ApproveCalls = {} /\ MergeCalls = {}

\* C1 (amended): a run that ends with a state-guard error has issued no
\* merge-action call; it has issued no approve-action call either, except
\* in the full workflow, whose conflict guard runs after the review step: a
\* full run that ends with the conflict error may have issued one
\* approve-action call.  A run that ends with the not-OPEN error, and any
\* review-only or merge-only run that ends with a guard error, has issued
\* no mutating call at all.
C1_GuardErrorNoMutationAmended ==
    EndedWithGuardError =>
        /\ MergeCalls = {}
        /\ (cmd # "full" \/ err = ErrNotOpen) => ApproveCalls = {}
        /\ Cardinality(ApproveCalls) <= 1

\* a full run that ended with the conflict error after its approve call
C1_Witness ==
    /\ Exited /\ cmd = "full" /\ err = ErrConflict /\ exitCode = 1
    /\ Cardinality(ApproveCalls) = 1

AcceptedBefore(i, format) ==
    \E j \in 1..(i - 1) : trace[j] = Prompt(format, TRUE)

\* C2 (as stated): in interactive mode, in the review-only and the full
\* workflow, every approve-action call is preceded by an approval prompt the
\* user accepted; after a declined approval prompt there is no
\* approve-action call and no merge-action call.  (Stated for the runs whose
\* payload reports the requested number, which is all a failing run needs.)
C2_ApproveNeedsAcceptedPrompt ==
    (FaithfulSnapshot /\ ~opts.Auto /\ cmd \in {"review", "full"}) =>
        /\ \A i \in ApproveCalls : AcceptedBefore(i, FmtApprove)
        /\ (\E j \in Declined : trace[j].args = <<FmtApprove>>)
               => ApproveCalls = {} /\ MergeCalls = {}

\* C2 (amended): in interactive mode, in the review-only workflow every
\* approve-action call is preceded by an approval prompt the user accepted,
\* and a declined approval prompt means no approve-action call.  The full
\* workflow never shows an approval prompt: it issues its approve-action
\* call unasked, and its only prompt is the intermediate "Proceed with
\* merge" prompt, which precedes every merge-action call and, when
\* declined, ends the run with no merge-action call.
C2_ApproveNeedsAcceptedPromptAmended ==
    /\ (~opts.Auto /\ cmd = "review") =>
          /\ \A i \in ApproveCalls : AcceptedBefore(i, FmtApprove)
          /\ (\E j \in Declined : trace[j].args = <<FmtApprove>>) => ApproveCalls = {}
    /\ cmd = "full" =>
          /\ \A j \in Prompts : trace[j].args = <<FmtProceed>>
          /\ ~opts.Auto =>
                /\ \A i \in MergeCalls : AcceptedBefore(i, FmtProceed)
                /\ Declined # {} => MergeCalls = {}

\* an interactive review run whose approve call followed an accepted prompt
C2_Witness ==
    /\ ~opts.Auto /\ cmd = "review" /\ Exited
    /\ \E i \in ApproveCalls : trace[i - 1] = Prompt(FmtApprove, TRUE)

\* C3: in automatic mode no workflow ever invokes Printer.Confirm.
C3_AutoNeverPrompts ==
    opts.Auto => Prompts = {}

\* an automatic merge-only run that went all the way to a successful merge
C3_Witness ==
    /\ opts.Auto /\ cmd = "merge" /\ Exited /\ exitCode = 0
    /\ \E i \in MergeCalls : trace[i].ok

\* C4: in interactive mode a declined prompt is the last thing the run
\* does: no external call (so no approve-action and no merge-action call)
\* and no prompt follows it, the workflow returns no error and the process
\* exits with code 0.
C4_DeclineEndsRunSuccessfully ==
    (~opts.Auto /\ Declined # {}) =>
        /\ Declined = {Len(trace)}
        /\ Returned /\ err = Nil
        /\ Exited => exitCode = 0

\* an interactive full run that approved and was then declined the merge
C4_Witness ==
    /\ ~opts.Auto /\ cmd = "full" /\ Exited /\ exitCode = 0
    /\ Declined # {} /\ ApproveCalls # {}

FetchedClosedOrMerged == pr.State \in {PRStateClosed, PRStateMerged}

\* C5: for a fetched PR whose lifecycle state is CLOSED or MERGED every
\* workflow returns the not-open error (exit code 1) straight after the
\* fetch: the history holds the three environment checks and the fetch and
\* nothing else -- no existing-review query, no prompt, no approve-action
\* and no merge-action call.
C5_NotOpenFailsBeforeAnything ==
    FetchedClosedOrMerged =>
        /\ Len(trace) = 4
        /\ \A i \in 1..3 : IsEnvCheck(trace[i])
        /\ IsFetchCall(trace[4])
        /\ pc \in {"GuardOpen", "main", "exited"}
        /\ Returned => err = ErrNotOpen
        /\ Exited => exitCode = 1

\* a merge-only run on a MERGED pull request that has exited
C5_Witness ==
    /\ cmd = "merge" /\ pr.State = PRStateMerged /\ Exited /\ exitCode = 1

LastEvent == trace[Len(trace)]

\* C6: on a snapshot that is OPEN and CONFLICTING the merge-only and the
\* full workflow never issue a merge-action call, in either mode; once the
\* merge phase is reached it fails with the conflict error and the process
\* exits with code 1.  (Merge-only reaches the phase straight after the
\* OPEN guard; full reaches it unless the approve-action call failed or the
\* intermediate prompt was declined.)
C6_ConflictBlocksMerge ==
    (SnapshotOpen /\ SnapshotConflicting /\ cmd \in {"merge", "full"}) =>
        /\ MergeCalls = {}
        /\ pc # "MergePR"
        /\ Returned =>
              \/ err = ErrConflict /\ (Exited => exitCode = 1)
              \/ cmd = "full" /\ err = ErrApprove
              \/ cmd = "full" /\ ~opts.Auto /\ Declined = {Len(trace)}

\* an interactive full run that was told to proceed and hit the conflict guard
C6_Witness ==
    /\ SnapshotOpen /\ SnapshotConflicting /\ cmd = "full" /\ ~opts.Auto
    /\ Exited /\ err = ErrConflict
    /\ LastEvent = Prompt(FmtProceed, TRUE)

\* C7: when the existing-review query reports an APPROVED review (the
\* local `approved` is true) the review phase issues no approve-action
\* call, shows no approval prompt and ends without error: review-only
\* returns nil and exits 0, full goes on to its intermediate prompt or its
\* merge phase.
C7_AlreadyApprovedSkips ==
    approved =>
        /\ SnapshotOpen
        /\ ApproveCalls = {}
        /\ \A j \in Prompts : trace[j].args # <<FmtApprove>>
        /\ err # ErrApprove
        /\ cmd = "review" => Returned /\ err = Nil /\ (Exited => exitCode = 0)
        /\ cmd = "full" => pc \in {"Confirm", "GuardConflict", "MergePR", "main", "exited"}

\* a review-only run that found the approval and exited 0
C7_Witness ==
    /\ approved /\ cmd = "review" /\ Exited /\ exitCode = 0
    /\ IsReviewQuery(LastEvent)

AllCallsSucceeded == \A i \in Events : IsExec(trace[i]) => trace[i].ok

\* the flag the documentation gives for each strategy
StrategyFlag ==
    [merge |-> "--merge", squash |-> "--squash", rebase |-> "--rebase", auto |-> "--auto"]

\* C8: in automatic mode, a full run on an OPEN, non-CONFLICTING snapshot
\* with no existing approval, in which every external call succeeded, has
\* issued exactly one approve-action call followed by exactly one
\* merge-action call that carries the flag of the selected strategy, and
\* exits with code 0.
C8_AutoFullHappyPath ==
    ( /\ cmd = "full" /\ opts.Auto /\ Exited
      /\ SnapshotOpen /\ ~SnapshotConflicting /\ ~approved
      /\ AllCallsSucceeded ) =>
        /\ opts.MergeMethod \in ValidMergeMethods
        /\ Len(trace) = 7
        /\ ApproveCalls = {6}
        /\ MergeCalls = {7}
        /\ trace[7].args[Len(trace[7].args)] = StrategyFlag[opts.MergeMethod]
        /\ err = Nil /\ exitCode = 0

\* the scenario of the specification: PR #42, squash, automatic mode
C8_Witness ==
    /\ cmd = "full" /\ opts.Auto /\ Exited /\ exitCode = 0
    /\ prNumber = 42 /\ pr.Number = 42 /\ opts.MergeMethod = MergeMethodSquash
    /\ SnapshotOpen /\ pr.Mergeable = MergeableYes /\ ~approved /\ AllCallsSucceeded
    /\ trace[6].args = <<"pr", "review", "42", "--approve">>
    /\ trace[7].args = <<"pr", "merge", "42", "--delete-branch=false", "--squash">>

\* C9: in automatic mode, a full run on an OPEN, non-CONFLICTING snapshot
\* that is already approved still merges: it issues no approve-action call,
\* it has issued exactly one merge-action call by the time it returns, and
\* it exits with code 0 when that call succeeded (1 when it failed).
C9_AutoFullAlreadyApproved ==
    (cmd = "full" /\ opts.Auto /\ SnapshotOpen /\ ~SnapshotConflicting /\ approved) =>
        /\ ApproveCalls = {}
        /\ Prompts = {}
        /\ Returned => MergeCalls = {Len(trace)}
        /\ Exited => exitCode = (IF LastEvent.ok THEN 0 ELSE 1)

\* an automatic full run that skipped the approval, merged and exited 0
C9_Witness ==
    /\ cmd = "full" /\ opts.Auto /\ approved /\ Exited /\ exitCode = 0
    /\ ApproveCalls = {} /\ Cardinality(MergeCalls) = 1 /\ LastEvent.ok

\* a subprocess whose failure is fatal: every one but the existing-review query
FatalCall(e) == IsExec(e) /\ ~IsReviewQuery(e)

\* C10: fail-fast.  A failed environment check, metadata fetch (the
\* subprocess or the decoding of its output), approve-action call or
\* merge-action call is the last event of the run: no external call and no
\* prompt follows it, the error reaches main and the process exits with
\* code 1.  So every fatal call that is followed by anything succeeded, and
\* the stages come in order: the fetch is the fourth call, after the three
\* environment checks, and every other call or prompt comes after it.
C10_FailFast ==
    /\ \A i \in Events : (FatalCall(trace[i]) /\ ~trace[i].ok) =>
          /\ i = Len(trace)
          /\ Returned /\ err \notin {Nil, ErrNotOpen, ErrConflict}
    /\ err = ErrParsePR => Returned /\ Len(trace) = 4 /\ IsFetchCall(LastEvent)
    /\ (Exited /\ err # Nil) => exitCode = 1
    /\ \A i \in Events :
          /\ IsEnvCheck(trace[i]) <=> i <= 3
          /\ IsFetchCall(trace[i]) <=> i = 4

\* a full run whose approve-action call failed and that exited 1
C10_Witness ==
    /\ cmd = "full" /\ Exited /\ exitCode = 1 /\ err = ErrApprove
    /\ IsApproveCall(LastEvent) /\ ~LastEvent.ok

FailedReviewQueries == {i \in Events : IsReviewQuery(trace[i]) /\ ~trace[i].ok}

\* what a run does next once its existing-review query has failed, given
\* the step the claim expects there
ContinuesAfterFailedQuery(i, interactiveStep) ==
    /\ WarnCouldNotCheck \in {warnings[k] : k \in 1..Len(warnings)}
    /\ WarnAlreadyApproved \notin {warnings[k] : k \in 1..Len(warnings)}
    /\ ~approved
    /\ err # ErrFetchReviews
    /\ IF interactiveStep
       THEN /\ i = Len(trace) => pc = "Confirm" /\ err = Nil
            /\ i < Len(trace) => IsPrompt(trace[i + 1]) /\ trace[i + 1].args = <<FmtApprove>>
       ELSE /\ i = Len(trace) => pc = "ApprovePR" /\ err = Nil
            /\ i < Len(trace) => IsApproveCall(trace[i + 1])

\* C11 (as stated): in review-only and full, when the existing-review query
\* fails the run logs a warning, treats the PR as not approved and goes on
\* to the approval step -- the approval prompt in interactive mode, the
\* approve-action call in automatic mode -- instead of aborting; every
\* other failed external call is fatal.  (Stated for the runs whose payload
\* reports the requested number, which is all a failing run needs.)
C11_ReviewQueryFailureNonFatal ==
    FaithfulSnapshot =>
        /\ \A i \in FailedReviewQueries : ContinuesAfterFailedQuery(i, ~opts.Auto)
        /\ \A i \in Events :
              (IsExec(trace[i]) /\ ~trace[i].ok /\ i < Len(trace)) => IsReviewQuery(trace[i])

\* C11 (amended): when the existing-review query fails the run logs the
\* "Could not check existing reviews" warning, treats the PR as not
\* approved and does not abort.  Review-only goes on to its approval prompt
\* in interactive mode and to the approve-action call in automatic mode;
\* full goes on to the approve-action call in both modes, because its
\* review step has no prompt.  Every other failed external call is fatal.
C11_ReviewQueryFailureNonFatalAmended ==
    /\ \A i \in FailedReviewQueries :
          ContinuesAfterFailedQuery(i, ~opts.Auto /\ cmd = "review")
    /\ \A i \in Events :
          (IsExec(trace[i]) /\ ~trace[i].ok /\ i < Len(trace)) => IsReviewQuery(trace[i])

\* an automatic review-only run whose review query failed and that approved
\* all the same and exited 0
C11_Witness ==
    /\ cmd = "review" /\ opts.Auto /\ Exited /\ exitCode = 0
    /\ FailedReviewQueries = {Len(trace) - 1}
    /\ IsApproveCall(LastEvent) /\ LastEvent.ok
    /\ warnings = <<WarnCouldNotCheck>>

\* the three environment checks, in the order the workflows run them
EnvChecks ==
    << [name |-> "gh",  args |-> <<"version">>],
       [name |-> "git", args |-> <<"rev-parse", "--git-dir">>],
       [name |-> "gh",  args |-> <<"auth", "status">>] >>

IsPRSpecificCall(e) ==
    IsFetchCall(e) \/ IsReviewQuery(e) \/ IsApproveCall(e) \/ IsMergeCall(e)

\* C12: every workflow begins with the three environment checks in the
\* order tool-present, repository-context, authentication, one external
\* invocation each: the first three events of a run are those invocations
\* and none is repeated later; a check runs only if the ones before it
\* passed, a failing check is the last event of the run, and every
\* PR-specific call (fetch, review query, approve, merge) and every prompt
\* comes after three successful checks.
C12_EnvChecksInOrder ==
    /\ \A i \in Events :
          /\ i <= 3 => /\ IsExec(trace[i])
                       /\ trace[i].name = EnvChecks[i].name
                       /\ trace[i].args = EnvChecks[i].args
                       /\ \A j \in 1..(i - 1) : trace[j].ok
                       /\ ~trace[i].ok => i = Len(trace) /\ Returned /\ err # Nil
          /\ i > 3 => /\ ~IsEnvCheck(trace[i])
                      /\ \A j \in 1..3 : trace[j].ok
          /\ (IsPRSpecificCall(trace[i]) \/ IsPrompt(trace[i])) => i > 3
    /\ pc \notin {"Args", "RunE", "CheckGHInstalled", "CheckGitRepo", "CheckAuth", "main", "exited"}
          => Len(trace) >= 3

\* a merge-only run that passed the three checks, fetched and merged
C12_Witness ==
    /\ cmd = "merge" /\ Exited /\ Len(trace) = 5
    /\ \A j \in 1..3 : IsEnvCheck(trace[j]) /\ trace[j].ok
    /\ IsFetchCall(trace[4]) /\ MergeCalls = {5}

\* the texts that do not denote a positive integer: no digits or something
\* other than digits after the optional sign, a value of zero, a minus
\* sign, or a value outside the range of an int
NonNumeric(s) ==
    Unsigned(s) = <<>> \/ \E i \in 1..Len(Unsigned(s)) : ~IsDigit(Unsigned(s)[i])
DenotesZero(s) == ~NonNumeric(s) /\ Significant(Unsigned(s)) = <<"0">>
Negative(s)    == ~NonNumeric(s) /\ s[1] = "-"
OutOfRange(s)  == ~NonNumeric(s) /\ ~InRange(s)

NotPositiveInteger(a) ==
    \/ Len(a) = 0
    \/ Len(a) >= 1 /\ ( \/ NonNumeric(a[1]) \/ DenotesZero(a[1])
                        \/ Negative(a[1])   \/ OutOfRange(a[1]) )

\* C13: when the PR identifier argument is not a positive integer
\* (non-numeric text, zero, negative, out of range, or missing), review,
\* merge and full make no external call and show no prompt: the run goes
\* from argument validation straight to main with an error and exits with
\* code 1.  Conversely a run that has made an external call parsed a
\* positive number, the one its argument denotes.
C13_BadPRArgumentRejected ==
    /\ NotPositiveInteger(args) =>
          /\ trace = <<>>
          /\ prNumber = 0
          /\ pc \in {"Args", "RunE", "main", "exited"}
          /\ Returned => err \in {ErrArgCount, ErrPRRequired, ErrInvalidPR, ErrUnknownMergeMethod}
          /\ Exited => exitCode = 1
    /\ trace # <<>> =>
          /\ prNumber > 0
          /\ Len(args) = 1
          /\ Chars(prNumber) = Significant(Unsigned(args[1]))

\* a full run given "0" with a valid merge method: rejected by parsePR
C13_Witness ==
    /\ cmd = "full" /\ args = << <<"0">> >> /\ opts.MergeMethod \in ValidMergeMethods
    /\ Exited /\ exitCode = 1 /\ err = ErrInvalidPR /\ trace = <<>>

\* C14 (as stated): for every merge-strategy value outside {merge, squash,
\* rebase, auto}, review, merge and full reject the invocation before any
\* external call: the history stays empty, the run returns an error and
\* the process exits with code 1.
C14_InvalidMethodRejected ==
    opts.MergeMethod \notin ValidMergeMethods =>
        /\ trace = <<>>
        /\ Returned => err # Nil
        /\ Exited => exitCode = 1

FetchCalls    == {i \in Events : IsFetchCall(trace[i])}
ReviewQueries == {i \in Events : IsReviewQuery(trace[i])}

\* the guard decisions a run has taken so far agree with the record in `pr`
GuardsFollowSnapshot ==
    /\ pc \in {"IsAlreadyApproved", "Confirm", "ApprovePR", "GuardConflict", "MergePR"}
          => SnapshotOpen
    /\ (ReviewQueries # {} \/ ApproveCalls # {} \/ MergeCalls # {} \/ Prompts # {})
          => SnapshotOpen
    /\ err = ErrNotOpen => ~SnapshotOpen
    /\ err = ErrConflict => SnapshotOpen /\ SnapshotConflicting
    /\ (pc = "MergePR" \/ MergeCalls # {}) => ~SnapshotConflicting
    /\ (cmd = "merge" /\ pc = "Confirm") => ~SnapshotConflicting

\* C15: a run issues the metadata fetch at most once and the
\* existing-review query at most once, and these are its only read queries
\* about the PR (every other external call is an environment check, the
\* approve action or the merge action); the record the fetch produced is
\* never replaced afterwards, and every guard decision (OPEN, CONFLICTING)
\* agrees with that record.
C15_SingleSnapshot ==
    /\ [](/\ Cardinality(FetchCalls) <= 1
          /\ Cardinality(ReviewQueries) <= 1
          /\ \A i \in Events :
                IsExec(trace[i]) =>
                    \/ IsEnvCheck(trace[i]) \/ IsFetchCall(trace[i]) \/ IsReviewQuery(trace[i])
                    \/ IsApproveCall(trace[i]) \/ IsMergeCall(trace[i])
          /\ FetchCalls = {} => pr = NoPR
          /\ GuardsFollowSnapshot)
    /\ [][FetchCalls # {} => pr' = pr]_vars

\* a full run that fetched once, queried the reviews once, approved and merged
C15_Witness ==
    /\ cmd = "full" /\ Exited /\ exitCode = 0
    /\ Cardinality(FetchCalls) = 1 /\ Cardinality(ReviewQueries) = 1
    /\ Cardinality(ApproveCalls) = 1 /\ Cardinality(MergeCalls) = 1
    /\ pr.Mergeable = MergeableUnknown

\* GetPR has returned a record: the fetch was issued and neither the
\* subprocess nor the decoding failed
RecordProduced == FetchCalls # {} /\ err \notin {ErrPRNotFound, ErrParsePR}

\* C16 (as stated): every record GetPR produces has a positive number, a
\* lifecycle state in {OPEN, CLOSED, MERGED} and a mergeability in
\* {MERGEABLE, CONFLICTING, UNKNOWN}; a payload in which one of these is
\* missing or unrecognized produces no record but the decode error.
C16_RecordAlwaysValid ==
    RecordProduced =>
        /\ pr.Number > 0
        /\ pr.State \in {PRStateOpen, PRStateClosed, PRStateMerged}
        /\ pr.Mergeable \in {MergeableYes, MergeableConflict, MergeableUnknown}

\* the external tool's own diagnostic text: its trimmed standard error, or
\* its trimmed standard output when standard error is empty
Diagnostic(p) ==
    IF TrimSpace(p.stderr) # <<>> THEN TrimSpace(p.stderr) ELSE TrimSpace(p.stdout)

\* C17 (as stated): when the approve-action or the merge-action subprocess
\* exits non-zero, the error that reaches main carries the tool's
\* diagnostic text (trimmed standard error, or trimmed standard output when
\* standard error is empty).
C17_ErrorCarriesToolText ==
    (Returned /\ err \in {ErrApprove, ErrMerge}) =>
        /\ child.code # 0
        /\ Contains(cause, Diagnostic(child))

\* the strategy flag a merge call carries: its last argument
FlagOf(e) == e.args[Len(e.args)]

\* C18: MergePR sends merge, squash, rebase and auto to --merge, --squash,
\* --rebase and --auto, four pairwise distinct flags, so that the strategy
\* is the only one of the four with that flag; every other method string
\* (unknown, empty, or differing in case) gets --merge and the call is
\* issued all the same.
C18_StrategyFlagMapping ==
    /\ Cardinality({MergeFlag(m) : m \in ValidMergeMethods}) = Cardinality(ValidMergeMethods)
    /\ pc # "MergePR" => Cardinality(MergeCalls) = 1
    /\ \A i \in MergeCalls :
          IF opts.MergeMethod \in ValidMergeMethods
          THEN /\ FlagOf(trace[i]) = StrategyFlag[opts.MergeMethod]
               /\ {m \in ValidMergeMethods : StrategyFlag[m] = FlagOf(trace[i])}
                      = {opts.MergeMethod}
          ELSE FlagOf(trace[i]) = StrategyFlag[MergeMethodMerge]

\* MergePR called with "SQUASH": the call went out with --merge
C18_Witness ==
    /\ opts.MergeMethod = "SQUASH" /\ Exited /\ exitCode = 0
    /\ MergeCalls = {1} /\ FlagOf(trace[1]) = "--merge" /\ trace[1].ok

StrategyFlags == {StrategyFlag[m] : m \in ValidMergeMethods}

\* the number a workflow hands to MergePR: the parsed argument in merge-only,
\* the number of the fetched record in full
MergedNumber == IF cmd = "full" THEN pr.Number ELSE prNumber

\* C19: every merge-action invocation is `gh pr merge <number>
\* --delete-branch=false <flag>`: it carries the PR number (which, for a
\* record reporting the requested PR, is the number the user gave), the
\* explicit --delete-branch=false option and exactly one strategy flag, the
\* one of the selected strategy; no other form of the delete-branch option
\* and no second strategy flag occurs.
C19_MergeCallShape ==
    \A i \in MergeCalls :
        LET a == trace[i].args
        IN  /\ trace[i].name = "gh"
            /\ Len(a) = 5
            /\ a[1] = "pr" /\ a[2] = "merge"
            /\ a[3] = Itoa(MergedNumber)
            /\ FaithfulSnapshot => a[3] = Itoa(prNumber)
            /\ {k \in 1..Len(a) : a[k] = "--delete-branch=false"} = {4}
            /\ \A k \in 1..Len(a) :
                  a[k] \notin {"--delete-branch", "--delete-branch=true", "-d"}
            /\ {k \in 1..Len(a) : a[k] \in StrategyFlags} = {5}
            /\ a[5] = StrategyFlag[opts.MergeMethod]

\* an interactive full run that merged PR 2 by rebase
C19_Witness ==
    /\ cmd = "full" /\ ~opts.Auto /\ Exited /\ exitCode = 0
    /\ LastEvent.args = <<"pr", "merge", "2", "--delete-branch=false", "--rebase">>

\* successful approve-action calls of earlier runs on this PR
PriorApprovals == github.approvals - Cardinality({i \in ApproveCalls : trace[i].ok})

\* C20 (as stated): across successive invocations on one PR, once an
\* earlier run's approve-action call has succeeded (whether or not that run
\* went on to merge, was declined, failed or was interrupted), every later
\* run issues zero approve-action calls, so the PR never receives a second
\* approval from this tool.
C20_NoSecondApprove ==
    /\ PriorApprovals >= 1 => ApproveCalls = {}
    /\ github.approvals <= 1

\* C20 (amended): once an earlier run's approve-action call has succeeded,
\* a later review-only or full run whose existing-review query succeeds
\* finds the approval and issues zero approve-action calls (review-only
\* ends with exit code 0, full goes on to its merge phase).  A later run
\* whose existing-review query fails takes the PR as not approved and goes
\* on to the approval step, so it can issue a second approve-action call;
\* within one run there is never more than one.
C20_NoSecondApproveAmended ==
    /\ (PriorApprovals >= 1 /\ FailedReviewQueries = {}) =>
          /\ ApproveCalls = {}
          /\ pc # "ApprovePR"
          /\ ReviewQueries # {} => approved
    /\ ApproveCalls # {} => (PriorApprovals = 0 \/ FailedReviewQueries # {})
    /\ Cardinality(ApproveCalls) <= 1
    /\ github.approvals <= run

\* a second run, full, that found the approval of the first run, issued no
\* approve-action call and merged
C20_Witness ==
    /\ run = 2 /\ cmd = "full" /\ PriorApprovals = 1
    /\ Exited /\ exitCode = 0 /\ approved
    /\ ApproveCalls = {} /\ github.merged

\* C21 (as stated): a bare PR number with no verb behaves as `full
\* <PR_NUMBER>` with the same flags -- the same external calls and prompts,
\* the same exit code.  A full run given a positive PR number and a valid
\* merge method always starts with the tool-present check, so the bare run
\* must have issued it by the time it exits.
C21_BareNumberIsFull ==
    ( /\ cmd = NoVerb /\ Exited
      /\ Len(args) = 1 /\ ~NotPositiveInteger(args)
      /\ opts.MergeMethod \in ValidMergeMethods ) =>
        /\ trace # <<>>
        /\ trace[1] = Exec("gh", <<"version">>, trace[1].ok)

\* "y" or "yes" in any mix of upper and lower case
YesWord(w) ==
    \/ Len(w) = 1 /\ w[1] \in {"y", "Y"}
    \/ Len(w) = 3 /\ w[1] \in {"y", "Y"} /\ w[2] \in {"e", "E"} /\ w[3] \in {"s", "S"}

Blank(c) == c \in {" ", "\t", "\r", "\n"}

\* the line is a yes-word with nothing but white space around it
Affirmative(r) ==
    /\ ~r.eof
    /\ \E i \in 1..(Len(r.text) + 1), j \in 0..Len(r.text) :
          /\ \A k \in 1..(i - 1) : Blank(r.text[k])
          /\ \A k \in (j + 1)..Len(r.text) : Blank(r.text[k])
          /\ YesWord(SubSeq(r.text, i, j))

PromptsInOrder == SelectSeq(trace, IsPrompt)

\* C22: each confirmation prompt reads standard input once, and it returns
\* true exactly when the read yielded a line that, with surrounding white
\* space removed and case ignored, is "y" or "yes"; any other line, the
\* empty line and end of stream give false.
C22_ConfirmAcceptsYes ==
    /\ Len(PromptsInOrder) = Len(stdin)
    /\ \A k \in 1..Len(stdin) : PromptsInOrder[k].ok <=> Affirmative(stdin[k])

\* Confirm given the line " YeS": accepted
C22_Witness ==
    /\ Exited
    /\ stdin = << [eof |-> FALSE, text |-> <<" ", "Y", "e", "S">>] >>
    /\ trace = << Prompt(FmtMerge, TRUE) >>

\* the first call of the legacy merge phase: merge_pr's state query
IsShStateQuery(e) == IsExec(e) /\ e.name = "gh" /\ Len(e.args) = 7 /\ e.args[5] = "state"

\* C23: in the legacy script's full workflow, --auto shows no prompt and
\* reads nothing from standard input, and without --auto the user has been
\* prompted before the merge phase starts.
C23_AutoSkipsEveryPrompt ==
    /\ opts.Auto => Prompts = {} /\ stdin = <<>>
    /\ ~opts.Auto =>
          \A i \in Events : IsShStateQuery(trace[i]) => \E j \in Prompts : j < i

\* GitHub's PR is no longer what the fetch reported
SnapshotStale ==
    /\ FetchCalls # {}
    /\ pr # NoPR
    /\ github.state # pr.State \/ github.mergeable # pr.Mergeable

\* the approval step went through: the query was issued and no approve call failed
ApprovalStepPassed ==
    /\ ReviewQueries # {}
    /\ \A i \in ApproveCalls : trace[i].ok

\* C24: the full workflow fetches the PR once; when the PR was closed,
\* merged or made conflicting by somebody else after the fetch, a run whose
\* snapshot passed the guards, whose approval step went through and whose
\* prompt was not declined has still issued the merge call.
C24_MergesOnStaleSnapshot ==
    cmd = "full" =>
        /\ Cardinality(FetchCalls) <= 1
        /\ (Returned /\ SnapshotStale /\ SnapshotOpen /\ ~SnapshotConflicting
              /\ ApprovalStepPassed /\ Declined = {})
             => MergeCalls # {}

\* the PR was closed behind the run's back and the merge call went out
C24_Witness ==
    /\ Exited
    /\ SnapshotOpen /\ github.state = PRStateClosed
    /\ MergeCalls # {}
    /\ \E i \in Prompts : trace[i].ok

\* the documented step an event belongs to (README, "The full workflow")
StepOf(e) ==
    CASE IsEnvCheck(e)    -> 1
      [] IsFetchCall(e)   -> 2
      [] IsReviewQuery(e) -> 4
      [] IsApproveCall(e) -> 5
      [] IsPrompt(e)      -> 6
      [] IsMergeCall(e)   -> 8
      [] OTHER            -> 0

ProceedAccepted == opts.Auto \/ \E i \in Prompts : trace[i].args = <<FmtProceed>> /\ trace[i].ok

\* C25: in the full workflow the events follow the documented order
\* (environment checks, fetch, review query, approve, "Proceed with merge?"
\* prompt, merge), the review query is issued only on an OPEN snapshot, the
\* prompt is shown only without automatic mode, and the conflict check is
\* reached only after the approval step went through and the prompt, if
\* any, was accepted; the merge call is issued only past the conflict check.
C25_FullStepOrder ==
    cmd = "full" =>
        /\ \A i, j \in Events :
             i < j => /\ StepOf(trace[i]) >= 1
                      /\ StepOf(trace[i]) <= StepOf(trace[j])
                      /\ StepOf(trace[i]) > 1 => StepOf(trace[i]) < StepOf(trace[j])
        /\ FetchCalls # {} => Cardinality({i \in Events : IsEnvCheck(trace[i])}) = 3
        /\ ReviewQueries # {} => FetchCalls # {} /\ SnapshotOpen
        /\ ApproveCalls # {} => ReviewQueries # {} /\ ~approved
        /\ \A i \in Prompts : ~opts.Auto /\ trace[i].args = <<FmtProceed>> /\ ApprovalStepPassed
        /\ (pc = "GuardConflict" \/ err = ErrConflict \/ MergeCalls # {})
             => ApprovalStepPassed /\ ProceedAccepted /\ (approved \/ ApproveCalls # {})
        /\ err = ErrConflict => MergeCalls = {}
        /\ MergeCalls # {} => ~SnapshotConflicting

\* an interactive full run stopped by the conflict check, after the
\* approve call and the accepted prompt
C25_Witness ==
    /\ cmd = "full" /\ ~opts.Auto
    /\ Exited /\ err = ErrConflict
    /\ \E i \in ApproveCalls : trace[i].ok
    /\ \E i \in Prompts : trace[i].ok

\* the index of the value of the member whose key is at index i
ValueAt(out, i) ==
    CHOOSE j \in (i + 1)..Len(out) :
        /\ out[j] \notin {":", " ", "\t", "\n"}
        /\ \A k \in (i + 1)..(j - 1) : out[k] \in {":", " ", "\t", "\n"}

\* the review list decoded from the output: some record has state APPROVED
SomeReviewApproved(out) ==
    \E i \in 1..Len(out) : out[i] = "\"state\"" /\ out[ValueAt(out, i)] = "\"APPROVED\""

\* C26: whenever the existing-review query succeeds, the approval check is
\* true exactly when the returned review list holds a record whose state is
\* APPROVED, however the payload is laid out.
C26_ApprovedIffSomeReviewApproved ==
    (trace # <<>> /\ IsReviewQuery(LastEvent) /\ LastEvent.ok)
        => (approved <=> SomeReviewApproved(child.stdout))

AllBlank(s) == \A k \in 1..Len(s) : Blank(s[k])

\* t is s without its leading and trailing white space
IsTrimOf(t, s) ==
    /\ t # <<>> => ~Blank(t[1]) /\ ~Blank(t[Len(t)])
    /\ \E i \in 0..Len(s) :
          /\ i + Len(t) <= Len(s)
          /\ SubSeq(s, i + 1, i + Len(t)) = t
          /\ \A k \in 1..i : Blank(s[k])
          /\ \A k \in (i + Len(t) + 1)..Len(s) : Blank(s[k])

\* C27: one Execute runs the subprocess once; on exit status zero it
\* returns the trimmed standard output and no error; otherwise it returns
\* an error with the trimmed standard error, or with the trimmed standard
\* output when standard error is empty or white space only.
C27_ExecuteContract ==
    pc # "Execute" =>
        /\ Len(trace) = 1 /\ IsExec(trace[1]) /\ (trace[1].ok <=> child.code = 0)
        /\ IF child.code = 0
           THEN result.err = <<>> /\ IsTrimOf(result.out, child.stdout)
           ELSE /\ result.err # <<>>
                /\ IF AllBlank(child.stderr)
                   THEN IsTrimOf(result.out, child.stdout)
                   ELSE IsTrimOf(result.out, child.stderr)

\* a failed subprocess that wrote only white space to standard error:
\* Execute hands back its standard output
C27_Witness ==
    /\ Exited
    /\ child = [stdout |-> <<"ok", "\n">>, stderr |-> <<" ", "\n">>, code |-> 1]
    /\ result.out = <<"ok">>
    /\ result.err # <<>>

PromptAccepted == opts.Auto \/ \E i \in Prompts : trace[i].ok

\* C28: merge-only issues neither the existing-review query nor an approve
\* call and, given an OPEN snapshot without conflicts and no declined
\* prompt, issues the merge call whether or not the PR is approved;
\* review-only issues no merge call, never fails on mergeability, and
\* approves an OPEN PR that is not yet approved even when it is CONFLICTING.
C28_ReviewAndMergeIndependent ==
    /\ cmd = "merge" =>
          /\ ReviewQueries = {} /\ ApproveCalls = {} /\ ~approved
          /\ (Returned /\ pr # NoPR /\ SnapshotOpen /\ ~SnapshotConflicting /\ PromptAccepted)
               => MergeCalls # {}
    /\ cmd = "review" =>
          /\ MergeCalls = {} /\ err # ErrConflict
          /\ (Returned /\ pr # NoPR /\ SnapshotOpen /\ ReviewQueries # {} /\ ~approved /\ PromptAccepted)
               => ApproveCalls # {}

\* review-only has approved an OPEN, CONFLICTING PR
C28_Witness ==
    /\ cmd = "review"
    /\ Exited /\ exitCode = 0
    /\ SnapshotOpen /\ SnapshotConflicting
    /\ \E i \in ApproveCalls : trace[i].ok
    /\ github.approvals = 1

\* C29: every existing-review query, approve call and merge call carries
\* the PR number given on the command line, whatever number the fetched
\* payload reports.
C29_CallsTargetRequestedPR ==
    \A i \in Events :
        (IsReviewQuery(trace[i]) \/ IsApproveCall(trace[i]) \/ IsMergeCall(trace[i]))
            => trace[i].args[3] = Itoa(prNumber)

ExecCalls == {i \in Events : IsExec(trace[i])}

\* C30: every run exits, and on the way performs at most seven external
\* calls (three environment checks, one fetch, one review query, one
\* approve, one merge) and shows at most one prompt.
C30_TerminatesWithinBudget ==
    /\ [](/\ Cardinality(ExecCalls) <= 7
          /\ Cardinality({i \in Events : IsEnvCheck(trace[i])}) <= 3
          /\ Cardinality(FetchCalls) <= 1
          /\ Cardinality(ReviewQueries) <= 1
          /\ Cardinality(ApproveCalls) <= 1
          /\ Cardinality(MergeCalls) <= 1
          /\ Cardinality(Prompts) <= 1
          /\ Len(stdin) = Cardinality(Prompts)
          /\ \A i \in ExecCalls : IsEnvCheck(trace[i]) \/ IsPRSpecificCall(trace[i]))
    /\ <>Exited

\* a full run that used all seven external calls and has exited
C30_Witness ==
    /\ Exited
    /\ Cardinality(ExecCalls) = 7
    /\ Cardinality(MergeCalls) = 1 /\ Cardinality(ApproveCalls) = 1

====
